---------------------------- MODULE Spec2Model ----------------------------
(* Model of the Angelax protocol core:                                     *)
(*   utils/atomic.rs   AtomicBitmap (find_and_set and friends)             *)
(*   utils/pool.rs     ObjectPool, PooledObject (drop), PoolMetrics        *)
(*   server/http2.rs   HpackDecoder, Http2Parser::update_settings          *)
(* Each component has its own specification over the shared variables:     *)
(*   SpecBitmap  concurrent find_and_set callers on one fresh bitmap       *)
(*   SpecPool    concurrent get / get_or_create / drop on one ObjectPool   *)
(*   SpecHpack   header-block decodes and SETTINGS updates on one parser   *)
(*   SpecInt     HpackDecoder::decode_integer on bounded byte strings      *)
EXTENDS Integers, Sequences, FiniteSets, TLC

(***************************************************************************)
(* Bounds of the model                                                     *)
(***************************************************************************)
\* threads that call into one bitmap / one pool concurrently
NumThreads == 2
\* calls the threads may start, all together
MaxCalls == 3
\* a bitmap's size is WordBits - spare, spare in 0..MaxSpare: the bits of
\* the last word that lie beyond the size
MaxSpare == 2
\* SpecBitmap: in-range bits still clear when the callers start
MaxFree == 2
\* field representations in one header block
MaxFields == 2
\* (id, value) pairs in one SETTINGS update
MaxSettings == 2
\* a header block is decoded only while the dynamic table has fewer entries
MaxTable == 2
\* bytes in decode_integer's input
MaxIntLen == 6
\* calls that change a flow-control window
MaxFlowCalls == 3
\* create_stream calls on one StreamManager
MaxCreates == 3
\* the largest max_concurrent_streams a StreamManager is made with
MaxLimit == 2
\* process() calls on one connection
MaxProcess == 4
MaxCapacity == 3
MaxStackCalls == 4
\* the longest slice handed to the SIMD scanners
MaxScanLen == 34

(***************************************************************************)
(* Program constants                                                       *)
(***************************************************************************)
\* bits per AtomicU64 word
WordBits == 64
\* usize::MAX, the index of a handle that is not bound to a slot.  Only its
\* being different from every slot index matters.
Sentinel == 2147483647

Threads == 1..NumThreads
Sizes == (WordBits - MaxSpare)..WordBits
\* ids of the objects the factory makes after construction, which are also
\* the ids of the handles
HandleIds == (WordBits - MaxSpare)..(WordBits + MaxCalls)

VARIABLES
    \* ---- AtomicBitmap (also ObjectPool.available) ----
    size,        \* AtomicBitmap.size
    bits,        \* AtomicBitmap.bits: word index -> set of bit positions that are 1
    \* ---- the callers: one record of locals per thread ----
    pc,          \* "idle" | "load" (about to word.load) | "cas" (about to compare_exchange)
    op,          \* the call in progress: "find_and_set" | "get" | "get_or_create"
    word_idx,    \* find_and_set: the word being scanned
    current,     \* find_and_set: the local copy of the word
    calls,       \* calls started so far, all threads (bounded by MaxCalls)
    result,      \* what the thread's last finished call returned
    grants,      \* history: index -> how often find_and_set has returned it
    oob,         \* history: bit indices >= size that find_and_set has set
    \* ---- ObjectPool ----
    objects,     \* ObjectPool.objects: slot -> object
    hasReset,    \* ObjectPool.reset.is_some()
    metrics,     \* PoolMetrics
    handles,     \* the live PooledObject values
    nextId,      \* ids for objects the factory makes and for handles
    last         \* the last operation that finished, for the properties

VARIABLES
    \* ---- Http2Parser ----
    settings,                  \* Http2Parser.settings
    max_frame_size,            \* Http2Parser.max_frame_size
    \* ---- Http2Parser.hpack_decoder: HpackDecoder ----
    dynamic_table,             \* newest entry first
    dynamic_table_size,
    max_dynamic_table_size,
    \* ---- the build and the argument of SpecInt ----
    overflow_checks,           \* built with overflow checks (debug) or without
    int_input,                 \* decode_integer's input
    int_prefix                 \* decode_integer's prefix_bits

VARIABLES
    \* ---- FlowController ----
    connection_window,         \* i32
    initial_stream_window,     \* i32
    stream_windows,            \* HashMap<u32, i32>: stream id -> window
    flow_log,                  \* history: the calls that have changed windows
    \* ---- StreamManager (also Http2State.streams) ----
    streams,                   \* HashMap<u32, StreamState>
    next_stream_id,            \* u32
    max_concurrent_streams,    \* Option<u32>
    created,                   \* history: the ids create_stream has returned
    \* ---- Connection ----
    state,                     \* ConnectionState: "Detecting" | "Http1" | ...
    read_buffer,               \* Connection.read_buffer, a sequence of units
    last_stream_id,            \* Http2State.last_stream_id
    transport,                 \* what the peer has put on the wire so far
    written,                   \* the frames written to the stream
    processed,                 \* history: process() calls made so far
    keep_alive,                \* Http1State.keep_alive
    idle,                      \* last_activity.elapsed(), in ticks
    arrived,                   \* history: the units stream.read() delivered
    surfaced                   \* history: the HTTP/1 requests surfaced

VARIABLES
    \* ---- AtomicStack ----
    head,                      \* AtomicStack.head
    nodes,                     \* AtomicStack.nodes: index -> Node
    pending,                   \* history: the values pushed and not popped
    stack_calls,               \* history: push and pop calls made so far
    \* ---- the scanners of utils/simd.rs ----
    scan_input                 \* the slice the scanners are given

bitmapVars == <<size, bits, pc, op, word_idx, current, calls, result, grants, oob>>
poolVars == <<objects, hasReset, metrics, handles, nextId>>
hpackVars == <<settings, max_frame_size, dynamic_table, dynamic_table_size,
               max_dynamic_table_size>>
intVars == <<overflow_checks, int_input, int_prefix>>

flowVars == <<connection_window, initial_stream_window, stream_windows, flow_log>>
streamVars == <<streams, next_stream_id, max_concurrent_streams, created>>
connVars == <<state, read_buffer, last_stream_id, transport, written, processed,
              keep_alive, idle, arrived, surfaced>>
serverVars == <<flowVars, streamVars, connVars>>

stackVars == <<head, nodes, pending, stack_calls>>

\* what the bitmap's and the pool's operations leave alone
notPool == <<hpackVars, intVars, serverVars, stackVars, scan_input>>
\* what the parser's operations leave alone
notHpack == <<bitmapVars, poolVars, serverVars, stackVars, scan_input>>
\* what the operations of server/mod.rs and server/connection.rs leave alone
notServer == <<bitmapVars, poolVars, int_input, int_prefix, stackVars,
               scan_input>>
\* what the stack's operations and the scanners leave alone
notStack == <<bitmapVars, poolVars, hpackVars, intVars, serverVars>>

(***************************************************************************)
(* utils/atomic.rs: AtomicBitmap                                           *)
(***************************************************************************)
FullWord == 0..(WordBits - 1)

\* AtomicBitmap::new: (size + 63) / 64 zeroed words
num_words(n) == (n + 63) \div 64

AtomicBitmap_new(n) == [w \in 0..(num_words(n) - 1) |-> {}]

\* AtomicBitmap::set: fetch_or of the mask; the bitmap afterwards
AtomicBitmap_set(b, n, index) ==
    IF index >= n THEN b
    ELSE [b EXCEPT ![index \div WordBits] = @ \cup {index % WordBits}]

\* AtomicBitmap::clear: fetch_and of the inverted mask; the bitmap afterwards
AtomicBitmap_clear(b, n, index) ==
    IF index >= n THEN b
    ELSE [b EXCEPT ![index \div WordBits] = @ \ {index % WordBits}]

\* set(i) for every i in 0..k, on a bitmap of size n
SetAll(b, n, k) ==
    [w \in DOMAIN b |->
        b[w] \cup {i \in FullWord : w * WordBits + i < k /\ w * WordBits + i < n}]

\* AtomicBitmap::test
AtomicBitmap_test(b, n, index) ==
    IF index >= n THEN FALSE
    ELSE (index % WordBits) \in b[index \div WordBits]

\* u64::trailing_ones of a word that is not u64::MAX: the lowest clear bit
trailing_ones(w) ==
    CHOOSE i \in FullWord \ w : \A j \in FullWord \ w : i <= j

\* the mutant of compare_exchange: a plain store that never fails
compare_exchange_blind(actual, expected) == TRUE

\* word.compare_exchange(current, new): succeeds iff the word still holds
\* the value the caller loaded
compare_exchange_ok(actual, expected) == actual = expected

(***************************************************************************)
(* utils/pool.rs: ObjectPool                                               *)
(***************************************************************************)
\* what the factory makes: a new object in its initial state
factory(id) == [id |-> id, data |-> 0]

\* the reset function registered by with_reset (v.clear(), v.fill(0),
\* HttpRequestBuffer::reset): back to the initial content
reset(v) == [v EXCEPT !.data = 0]

\* ObjectPool::new, the bitmap: `for i in 0..capacity { available.set(i) }`
\* on a new bitmap sets every slot's bit
ObjectPool_new_available(capacity) ==
    SetAll(AtomicBitmap_new(capacity), capacity, capacity)

\* ObjectPool::new, the slots: objects.push(MaybeUninit::new(factory()))
ObjectPool_new_objects(capacity) ==
    [i \in 0..(capacity - 1) |-> factory(i)]

\* the mutant of return_object: no early return for the sentinel index
return_object_no_sentinel(index, value) ==
    LET v == IF hasReset THEN reset(value) ELSE value
    IN  [objects |-> IF index \in DOMAIN objects
                     THEN [objects EXCEPT ![index] = v] ELSE objects,
         bits    |-> AtomicBitmap_clear(bits, size, index),
         returns |-> metrics.returns + 1]

\* ObjectPool::return_object: the pool's slots, bitmap and returns counter
\* after the call
return_object(index, value) ==
    IF index = Sentinel
    THEN [objects |-> objects, bits |-> bits, returns |-> metrics.returns]
    ELSE LET v == IF hasReset THEN reset(value) ELSE value
         IN  [objects |-> [objects EXCEPT ![index] = v],
              bits    |-> AtomicBitmap_clear(bits, size, index),
              returns |-> metrics.returns + 1]

None == [some |-> FALSE]
Some(x) == [some |-> TRUE, val |-> x]

\* The end of a find_and_set call by thread t with result r (None or
\* Some(index)), and what its caller (ObjectPool::get, get_or_create) does
\* with it.
Return(t, r) ==
    /\ pc' = [pc EXCEPT ![t] = "idle"]
    /\ result' = [result EXCEPT ![t] = r]
    /\ grants' = IF ~r.some THEN grants
                 ELSE IF r.val \in DOMAIN grants
                 THEN [grants EXCEPT ![r.val] = @ + 1]
                 ELSE (r.val :> 1) @@ grants
    /\ IF op[t] = "find_and_set"
       THEN /\ UNCHANGED <<metrics, handles, nextId>>
            /\ last' = [op |-> "find_and_set", thread |-> t, ret |-> r]
       ELSE IF r.some
       THEN \* get: hits += 1; ptr::read(objects[index]); Some(PooledObject)
            /\ metrics' = [metrics EXCEPT !.hits = @ + 1]
            /\ handles' = handles \cup
                 {[hid |-> nextId, index |-> r.val, value |-> objects[r.val]]}
            /\ nextId' = nextId + 1
            /\ last' = [op |-> op[t], thread |-> t, ret |-> r, hid |-> nextId]
       ELSE IF op[t] = "get"
       THEN \* get: misses += 1; None
            /\ metrics' = [metrics EXCEPT !.misses = @ + 1]
            /\ UNCHANGED <<handles, nextId>>
            /\ last' = [op |-> "get", thread |-> t, ret |-> r]
       ELSE \* get_or_create: the pool is exhausted, make a new object
            /\ metrics' = [metrics EXCEPT !.misses = @ + 1]
            /\ handles' = handles \cup
                 {[hid |-> nextId, index |-> Sentinel, value |-> factory(nextId)]}
            /\ nextId' = nextId + 1
            /\ last' = [op |-> "get_or_create", thread |-> t, ret |-> r,
                        hid |-> nextId]

\* A thread starts a call: find_and_set on the bare bitmap, or get /
\* get_or_create on the pool (metrics.requests.fetch_add(1), then
\* available.find_and_set()).
Call(t, o) ==
    /\ pc[t] = "idle"
    /\ calls < MaxCalls
    /\ calls' = calls + 1
    /\ op' = [op EXCEPT ![t] = o]
    /\ word_idx' = [word_idx EXCEPT ![t] = 0]
    /\ pc' = [pc EXCEPT ![t] = "load"]
    /\ metrics' = IF o = "find_and_set" THEN metrics
                  ELSE [metrics EXCEPT !.requests = @ + 1]
    /\ UNCHANGED <<size, bits, current, result, grants, oob,
                   objects, hasReset, handles, nextId, last>>
    /\ UNCHANGED notPool

\* find_and_set, the head of the for loop: word.load(Acquire), or the
\* final None when the words are used up
FasLoad(t) ==
    /\ pc[t] = "load"
    /\ UNCHANGED notPool
    /\ IF word_idx[t] >= num_words(size)
       THEN /\ Return(t, None)
            /\ UNCHANGED <<size, bits, op, word_idx, current, calls, oob,
                           objects, hasReset>>
       ELSE /\ current' = [current EXCEPT ![t] = bits[word_idx[t]]]
            /\ pc' = [pc EXCEPT ![t] = "cas"]
            /\ UNCHANGED <<size, bits, op, word_idx, calls, result, grants,
                           oob, objects, hasReset, metrics, handles, nextId,
                           last>>

\* find_and_set, one turn of the while loop: the test of current against
\* u64::MAX and the compare_exchange
FasCas(t) ==
    /\ pc[t] = "cas"
    /\ UNCHANGED notPool
    /\ IF current[t] = FullWord
       THEN \* the while loop ends, the for loop goes to the next word
            /\ word_idx' = [word_idx EXCEPT ![t] = @ + 1]
            /\ pc' = [pc EXCEPT ![t] = "load"]
            /\ UNCHANGED <<size, bits, op, current, calls, result, grants,
                           oob, objects, hasReset, metrics, handles, nextId,
                           last>>
       ELSE LET bit_idx == trailing_ones(current[t])
                new     == current[t] \cup {bit_idx}
                index   == word_idx[t] * WordBits + bit_idx
            IN  IF compare_exchange_ok(bits[word_idx[t]], current[t])
                THEN /\ bits' = [bits EXCEPT ![word_idx[t]] = new]
                     /\ IF index < size
                        THEN /\ Return(t, Some(index))
                             /\ UNCHANGED <<size, op, word_idx, current,
                                            calls, oob, objects, hasReset>>
                        ELSE \* Ok(_) but out of range: loop again with the
                             \* same (now stale) current
                             /\ oob' = oob \cup {index}
                             /\ UNCHANGED <<size, pc, op, word_idx, current,
                                            calls, result, grants, objects,
                                            hasReset, metrics, handles,
                                            nextId, last>>
                ELSE \* Err(actual) => current = actual
                     /\ current' = [current EXCEPT ![t] = bits[word_idx[t]]]
                     /\ UNCHANGED <<size, bits, pc, op, word_idx, calls,
                                    result, grants, oob, objects, hasReset,
                                    metrics, handles, nextId, last>>

Handle(hid) == CHOOSE h \in handles : h.hid = hid

\* The holder of a handle writes to the object through DerefMut.
Mutate(hid) ==
    /\ \E h \in handles : h.hid = hid
    /\ Handle(hid).value.data = 0
    /\ LET h == Handle(hid) IN
       handles' = (handles \ {h}) \cup {[h EXCEPT !.value.data = 1]}
    /\ UNCHANGED <<bitmapVars, objects, hasReset, metrics, nextId, last>>
    /\ UNCHANGED notPool

\* PooledObject::drop: value.take(), pool.return_object(index, value)
Drop(hid) ==
    /\ \E h \in handles : h.hid = hid
    /\ LET h == Handle(hid)
           r == return_object(h.index, h.value)
       IN  /\ objects' = r.objects
           /\ bits' = r.bits
           /\ metrics' = [metrics EXCEPT !.returns = r.returns]
           /\ handles' = handles \ {h}
           /\ last' = [op |-> "drop", hid |-> hid, index |-> h.index]
    /\ UNCHANGED <<size, pc, op, word_idx, current, calls, result, grants,
                   oob, hasReset, nextId>>
    /\ UNCHANGED notPool

(***************************************************************************)
(* Unsigned 32-bit values.  A value is a pair <<hi, lo>> standing for      *)
(* hi * 2^16 + lo with lo < 2^16; it is a u32 when hi < 2^16 too.  The     *)
(* exact (unwrapped) results of the arithmetic have a larger hi.           *)
(***************************************************************************)
Half == 256 * 256

WOf(n) == <<n \div Half, n % Half>>
WAdd(a, b) == <<a[1] + b[1] + ((a[2] + b[2]) \div Half), (a[2] + b[2]) % Half>>
\* a - b for a >= b
WSub(a, b) ==
    IF a[2] >= b[2] THEN <<a[1] - b[1], a[2] - b[2]>>
    ELSE <<a[1] - b[1] - 1, a[2] + Half - b[2]>>
WLt(a, b) == a[1] < b[1] \/ (a[1] = b[1] /\ a[2] < b[2])
WFits32(a) == a[1] < Half
\* the low 32 bits
WWrap32(a) == <<a[1] % Half, a[2]>>
\* x << m without loss, for x < 128
WShl(x, m) == IF m < 16 THEN WOf(x * (2 ^ m)) ELSE <<x * (2 ^ (m - 16)), 0>>
\* a >> 7 for a u32
WShr7(a) == WOf(a[1] * 512 + (a[2] \div 128))

(***************************************************************************)
(* server/http2.rs: HpackDecoder                                           *)
(***************************************************************************)
Ok(x) == [ok |-> TRUE, val |-> x]
Err(e) == [ok |-> FALSE, err |-> e]

\* &input[k..]
From(input, k) == SubSeq(input, k + 1, Len(input))

HpackDecoder_new(max_size) ==
    [dynamic_table |-> <<>>,
     dynamic_table_size |-> 0,
     max_dynamic_table_size |-> max_size]

\* decode_integer, the while loop.  `value += x << m`: the shift keeps the
\* low 32 bits; the addition panics on overflow in a build with overflow
\* checks and wraps in one without.
RECURSIVE decode_integer_loop(_, _, _, _)
decode_integer_loop(input, offset, m, value) ==
    IF offset >= Len(input) THEN Err("InvalidHeaderBlock")
    ELSE LET byte == input[offset + 1]
             sum  == WAdd(value, WWrap32(WShl(byte % 128, m)))
         IN  IF ~WFits32(sum) /\ overflow_checks THEN Err("panic")
             ELSE IF byte < 128
             THEN [ok |-> TRUE, val |-> WWrap32(sum), read |-> offset + 1]
             ELSE IF m + 7 > 28 THEN Err("InvalidHeaderBlock")
             ELSE decode_integer_loop(input, offset + 1, m + 7, WWrap32(sum))

\* HpackDecoder::decode_integer
decode_integer(input, prefix_bits) ==
    IF input = <<>> THEN Err("InvalidHeaderBlock")
    ELSE LET prefix_mask == (2 ^ prefix_bits) - 1
             value == input[1] % (2 ^ prefix_bits)
         IN  IF value < prefix_mask
             THEN [ok |-> TRUE, val |-> WOf(value), read |-> 1]
             ELSE decode_integer_loop(input, 1, 0, WOf(value))

RECURSIVE integer_size_loop(_, _)
integer_size_loop(sz, remaining) ==
    IF ~WLt(remaining, WOf(128))
    THEN integer_size_loop(sz + 1, WShr7(remaining))
    ELSE sz

\* HpackDecoder::integer_size
integer_size(value, prefix_bits) ==
    LET prefix_max == (2 ^ prefix_bits) - 1
    IN  IF WLt(value, WOf(prefix_max)) THEN 1
        ELSE integer_size_loop(1, WSub(value, WOf(prefix_max))) + 1

\* HpackDecoder::decode_string.  A length of 2^16 or more is longer than
\* any input of the model.
decode_string(input) ==
    IF input = <<>> THEN Err("InvalidHeaderBlock")
    ELSE LET huffman == input[1] >= 128
             li == decode_integer(input, 7)
         IN  IF ~li.ok THEN li
             ELSE LET length == li.val
                      length_size == integer_size(length, 7)
                  IN  IF length[1] > 0 \/ Len(input) < length_size + length[2]
                      THEN Err("InvalidHeaderBlock")
                      ELSE IF huffman THEN Err("CompressionError")
                      ELSE [ok |-> TRUE,
                            val |-> SubSeq(input, length_size + 1,
                                           length_size + length[2]),
                            consumed |-> length_size + length[2]]

\* HpackDecoder::get_indexed (index as usize).  An index of 2^16 or more is
\* beyond any table of the model.
get_indexed(dec, index) ==
    IF index = WOf(0) THEN Err("InvalidHeaderBlock")
    ELSE IF WLt(index, WOf(62)) THEN Ok([name |-> <<>>, value |-> <<>>])
    ELSE IF index[1] > 0 \/ index[2] - 62 >= Len(dec.dynamic_table)
    THEN Err("InvalidHeaderBlock")
    ELSE Ok(dec.dynamic_table[(index[2] - 62) + 1])

\* HpackDecoder::decode_literal
decode_literal(dec, input, index) ==
    LET nm == IF index = 0
              THEN decode_string(input)
              ELSE LET g == get_indexed(dec, WOf(index))
                   IN  IF g.ok THEN [ok |-> TRUE, val |-> g.val.name, consumed |-> 0]
                       ELSE g
    IN  IF ~nm.ok THEN nm
        ELSE LET v == decode_string(From(input, nm.consumed))
             IN  IF ~v.ok THEN v
                 ELSE [ok |-> TRUE, name |-> nm.val, value |-> v.val,
                       consumed |-> nm.consumed + v.consumed]

EntrySize(e) == 32 + Len(e.name) + Len(e.value)

\* add_to_table, the eviction loop: pop() takes the last, the oldest, entry
RECURSIVE evict(_, _)
evict(dec, entry_size) ==
    IF WLt(dec.max_dynamic_table_size, WOf(dec.dynamic_table_size + entry_size))
    THEN IF dec.dynamic_table = <<>> THEN [dec |-> dec, fits |-> FALSE]
         ELSE LET n == Len(dec.dynamic_table)
              IN  evict([dec EXCEPT
                           !.dynamic_table = SubSeq(@, 1, n - 1),
                           !.dynamic_table_size =
                               @ - EntrySize(dec.dynamic_table[n])],
                        entry_size)
    ELSE [dec |-> dec, fits |-> TRUE]

\* a mutant of add_to_table: no eviction
add_to_table_no_evict(dec, name, value) ==
    [dec EXCEPT
       !.dynamic_table = <<[name |-> name, value |-> value]>> \o @,
       !.dynamic_table_size = @ + 32 + Len(name) + Len(value)]

\* a mutant of add_to_table: the eviction takes the newest entry
RECURSIVE evict_newest(_, _)
evict_newest(dec, entry_size) ==
    IF WLt(dec.max_dynamic_table_size, WOf(dec.dynamic_table_size + entry_size))
    THEN IF dec.dynamic_table = <<>> THEN [dec |-> dec, fits |-> FALSE]
         ELSE evict_newest([dec EXCEPT
                              !.dynamic_table = Tail(@),
                              !.dynamic_table_size =
                                  @ - EntrySize(dec.dynamic_table[1])],
                           entry_size)
    ELSE [dec |-> dec, fits |-> TRUE]

add_to_table_evict_newest(dec, name, value) ==
    LET entry_size == 32 + Len(name) + Len(value)
        r == evict_newest(dec, entry_size)
    IN  IF ~r.fits THEN r.dec
        ELSE [r.dec EXCEPT
                !.dynamic_table = <<[name |-> name, value |-> value]>> \o @,
                !.dynamic_table_size = @ + entry_size]

\* HpackDecoder::add_to_table
add_to_table(dec, name, value) ==
    LET entry_size == 32 + Len(name) + Len(value)
        r == evict(dec, entry_size)
    IN  IF ~r.fits THEN r.dec
        ELSE [r.dec EXCEPT
                !.dynamic_table = <<[name |-> name, value |-> value]>> \o @,
                !.dynamic_table_size = @ + entry_size]

\* HpackDecoder::decode writes to the decoder in place, so what was
\* inserted before an error stays inserted.  `log` records, for the
\* properties, every indexed field looked up and every insertion.
RECURSIVE decode_loop(_, _, _, _, _)

\* decode, the branch `first_byte & 0x80 != 0`, an indexed header field:
\* i is decode_integer's result and g is get_indexed's
decode_indexed(dec, input, offset, headers, log, i, g) ==
    IF ~i.ok THEN [dec |-> dec, ret |-> Err(i.err), log |-> log]
    ELSE IF ~g.ok
    THEN [dec |-> dec, ret |-> Err(g.err),
          log |-> Append(log, [kind |-> "indexed", index |-> i.val,
                               table |-> dec.dynamic_table, ret |-> g])]
    ELSE decode_loop(dec, input, offset + integer_size(i.val, 7),
                     Append(headers, g.val),
                     Append(log, [kind |-> "indexed", index |-> i.val,
                                  table |-> dec.dynamic_table, ret |-> g]))

\* decode, the branch `first_byte & 0x40 != 0`, a literal header field with
\* incremental indexing: lit is decode_literal's result and d the decoder
\* after add_to_table
decode_incremental(dec, input, offset, headers, log, lit, d) ==
    IF ~lit.ok THEN [dec |-> dec, ret |-> Err(lit.err), log |-> log]
    ELSE decode_loop(d, input, offset + 1 + lit.consumed,
                     Append(headers, [name |-> lit.name, value |-> lit.value]),
                     Append(log, [kind |-> "insert",
                                  entry |-> [name |-> lit.name,
                                             value |-> lit.value],
                                  max |-> dec.max_dynamic_table_size,
                                  before |-> dec.dynamic_table,
                                  after |-> d.dynamic_table]))

\* self.get_indexed(index as usize)?, reached only past decode_integer(..)?
indexed_lookup(dec, i) == IF i.ok THEN get_indexed(dec, i.val) ELSE i

\* self.add_to_table(name.clone(), value.clone()), reached only past
\* decode_literal(..)?
literal_insert(dec, lit) ==
    IF lit.ok THEN add_to_table(dec, lit.name, lit.value) ELSE dec

\* HpackDecoder::decode, the while loop
decode_loop(dec, input, offset, headers, log) ==
    IF offset >= Len(input)
    THEN [dec |-> dec, ret |-> Ok(headers), log |-> log]
    ELSE IF input[offset + 1] >= 128
    THEN decode_indexed(dec, input, offset, headers, log,
             decode_integer(From(input, offset), 7),
             indexed_lookup(dec, decode_integer(From(input, offset), 7)))
    ELSE IF (input[offset + 1] \div 64) % 2 = 1
    THEN decode_incremental(dec, input, offset, headers, log,
             decode_literal(dec, From(input, offset + 1),
                            input[offset + 1] % 64),
             literal_insert(dec, decode_literal(dec, From(input, offset + 1),
                                                input[offset + 1] % 64)))
    ELSE [dec |-> dec, ret |-> Err("InvalidHeaderBlock"), log |-> log]

\* HpackDecoder::decode
decode(dec, input) == decode_loop(dec, input, 0, <<>>, <<>>)

(***************************************************************************)
(* server/http2.rs: Http2Parser                                            *)
(***************************************************************************)
\* Settings::default
Settings_default ==
    [header_table_size |-> WOf(4096),
     enable_push |-> TRUE,
     max_concurrent_streams |-> None,
     initial_window_size |-> WOf(65535),
     max_frame_size |-> WOf(16384),
     max_header_list_size |-> None]

\* Http2Parser::new
Http2Parser_new ==
    [settings |-> Settings_default,
     hpack_decoder |-> HpackDecoder_new(Settings_default.header_table_size),
     max_frame_size |-> Settings_default.max_frame_size]

\* Http2Parser::update_settings, the for loop over (id, value)
RECURSIVE update_settings_loop(_, _, _)
update_settings_loop(p, new_settings, i) ==
    IF i > Len(new_settings) THEN [p |-> p, ret |-> Ok(<<>>)]
    ELSE LET id == new_settings[i][1]
             value == new_settings[i][2]
         IN  CASE id = 1 ->
                    update_settings_loop(
                        [p EXCEPT !.settings.header_table_size = value,
                                  !.hpack_decoder = HpackDecoder_new(value)],
                        new_settings, i + 1)
               [] id = 2 ->
                    update_settings_loop(
                        [p EXCEPT !.settings.enable_push = (value # WOf(0))],
                        new_settings, i + 1)
               [] id = 3 ->
                    update_settings_loop(
                        [p EXCEPT !.settings.max_concurrent_streams = Some(value)],
                        new_settings, i + 1)
               [] id = 4 ->
                    update_settings_loop(
                        [p EXCEPT !.settings.initial_window_size = value],
                        new_settings, i + 1)
               [] id = 5 ->
                    IF WLt(value, WOf(16384)) \/ WLt(WOf(16777215), value)
                    THEN [p |-> p, ret |-> Err("InvalidSettings")]
                    ELSE update_settings_loop(
                             [p EXCEPT !.settings.max_frame_size = value,
                                       !.max_frame_size = value],
                             new_settings, i + 1)
               [] id = 6 ->
                    update_settings_loop(
                        [p EXCEPT !.settings.max_header_list_size = Some(value)],
                        new_settings, i + 1)
               [] OTHER -> update_settings_loop(p, new_settings, i + 1)

update_settings(p, new_settings) == update_settings_loop(p, new_settings, 1)

\* the parser and its decoder as the variables hold them
Decoder ==
    [dynamic_table |-> dynamic_table,
     dynamic_table_size |-> dynamic_table_size,
     max_dynamic_table_size |-> max_dynamic_table_size]

Parser ==
    [settings |-> settings, hpack_decoder |-> Decoder,
     max_frame_size |-> max_frame_size]

\* the header block representations the decodes are made of
Fields ==
    { <<128>>,             \* 0x80: indexed, index 0
      <<130>>,             \* 0x82: indexed, static index 2
      <<190>>,             \* 0xBE: indexed, index 62
      <<191>>,             \* 0xBF: indexed, index 63
      <<64, 1, 110, 0>>,   \* 0x40: literal "n": "", incremental indexing
      <<126, 1, 98>>,      \* 0x7E: literal, name of index 62, value "b"
      <<0>> }              \* 0x00: literal without indexing

RECURSIVE BlocksOf(_)
BlocksOf(n) ==
    IF n = 0 THEN {<<>>}
    ELSE LET B == BlocksOf(n - 1) IN B \cup {b \o f : b \in B, f \in Fields}

Blocks == BlocksOf(MaxFields)

\* the (id, value) pairs the SETTINGS updates are made of
SettingPairs ==
    { <<1, WOf(33)>>,      \* SETTINGS_HEADER_TABLE_SIZE: one entry "n": ""
      <<1, WOf(70)>>,      \* SETTINGS_HEADER_TABLE_SIZE: two entries
      <<5, WOf(100)>> }    \* SETTINGS_MAX_FRAME_SIZE below 16384

SettingLists == UNION {[1..n -> SettingPairs] : n \in 0..MaxSettings}

\* (id, value) pairs at and beyond the ends of the ranges of the settings
RangePairs ==
    { <<2, WOf(0)>>,             \* SETTINGS_ENABLE_PUSH 0
      <<2, WOf(2)>>,             \* SETTINGS_ENABLE_PUSH 2
      <<4, <<Half \div 2, 0>> >>, \* SETTINGS_INITIAL_WINDOW_SIZE 2^31
      <<5, WOf(16383)>>,         \* SETTINGS_MAX_FRAME_SIZE below the range
      <<5, WOf(16384)>>,         \* SETTINGS_MAX_FRAME_SIZE, the least allowed
      <<7, WOf(1)>> }            \* an id that names no setting

RangeLists == UNION {[1..n -> RangePairs] : n \in 0..MaxSettings}

\* Http2Parser.hpack_decoder.decode(block), as parse_headers calls it
Decode(block) ==
    /\ Len(dynamic_table) < MaxTable
    /\ \E r \in {decode(Decoder, block)} :
           /\ dynamic_table' = r.dec.dynamic_table
           /\ dynamic_table_size' = r.dec.dynamic_table_size
           /\ max_dynamic_table_size' = r.dec.max_dynamic_table_size
           /\ last' = [op |-> "decode", input |-> block, ret |-> r.ret,
                       log |-> r.log]
    /\ UNCHANGED <<settings, max_frame_size, intVars>>
    /\ UNCHANGED notHpack

\* Http2Parser::update_settings(new_settings)
UpdateSettings(new_settings) ==
    /\ \E r \in {update_settings(Parser, new_settings)} :
           /\ settings' = r.p.settings
           /\ max_frame_size' = r.p.max_frame_size
           /\ dynamic_table' = r.p.hpack_decoder.dynamic_table
           /\ dynamic_table_size' = r.p.hpack_decoder.dynamic_table_size
           /\ max_dynamic_table_size' = r.p.hpack_decoder.max_dynamic_table_size
           /\ last' = [op |-> "update_settings", input |-> new_settings,
                       ret |-> r.ret, before |-> Parser]
    /\ UNCHANGED intVars
    /\ UNCHANGED notHpack

\* decode_integer(int_input, int_prefix)
DecodeInteger ==
    /\ last.op = "new"
    /\ last' = [op |-> "decode_integer",
                ret |-> decode_integer(int_input, int_prefix)]
    /\ UNCHANGED <<hpackVars, intVars>>
    /\ UNCHANGED notHpack

(***************************************************************************)
(* server/mod.rs: FlowController                                           *)
(***************************************************************************)
\* i32::MAX and i32::MIN
I32Max == 2147483647
I32Min == (-I32Max) - 1

\* i32::checked_add
checked_add(a, b) ==
    IF (b > 0 /\ a > I32Max - b) \/ (b < 0 /\ a < I32Min - b) THEN None
    ELSE Some(a + b)

\* a - b in i32: the difference, and whether it overflowed (the wrapped
\* difference is then 2^32 away from the exact one)
overflowing_sub(a, b) ==
    IF b < 0 /\ a > I32Max + b
    THEN [val |-> (a + I32Min) - (b - I32Min), overflow |-> TRUE]
    ELSE IF b > 0 /\ a < I32Min + b
    THEN [val |-> (a - I32Min) - (b + I32Min), overflow |-> TRUE]
    ELSE [val |-> a - b, overflow |-> FALSE]

\* `size as i32` for a usize: the low 32 bits, read as two's complement
as_i32(sz) ==
    IF sz[1] % Half < Half \div 2 THEN (sz[1] % Half) * Half + sz[2]
    ELSE ((sz[1] % Half) - Half) * Half + sz[2]

\* the FlowController as the variables hold it
Flow ==
    [connection_window |-> connection_window,
     initial_stream_window |-> initial_stream_window,
     stream_windows |-> stream_windows]

\* FlowController::new
FlowController_new(initial_window) ==
    [connection_window |-> initial_window,
     initial_stream_window |-> initial_window,
     stream_windows |-> <<>>]

\* stream_windows.entry(stream_id).or_insert(initial_stream_window)
or_insert(fc, stream_id) ==
    IF stream_id \in DOMAIN fc.stream_windows THEN fc.stream_windows
    ELSE (stream_id :> fc.initial_stream_window) @@ fc.stream_windows

\* FlowController::update_connection_window
update_connection_window(fc, delta) ==
    LET sum == checked_add(fc.connection_window, delta)
    IN  IF ~sum.some THEN [fc |-> fc, ret |-> Err("FlowControlError")]
        ELSE IF sum.val < 0 \/ sum.val > I32Max \div 2
        THEN [fc |-> [fc EXCEPT !.connection_window = sum.val],
              ret |-> Err("FlowControlError")]
        ELSE [fc |-> [fc EXCEPT !.connection_window = sum.val],
              ret |-> Ok(<<>>)]

\* FlowController::update_stream_window
update_stream_window(fc, stream_id, delta) ==
    LET windows == or_insert(fc, stream_id)
        sum == checked_add(windows[stream_id], delta)
    IN  IF ~sum.some
        THEN [fc |-> [fc EXCEPT !.stream_windows = windows],
              ret |-> Err("FlowControlError")]
        ELSE IF sum.val < 0 \/ sum.val > I32Max \div 2
        THEN [fc |-> [fc EXCEPT !.stream_windows =
                                    [windows EXCEPT ![stream_id] = sum.val]],
              ret |-> Err("FlowControlError")]
        ELSE [fc |-> [fc EXCEPT !.stream_windows =
                                    [windows EXCEPT ![stream_id] = sum.val]],
              ret |-> Ok(<<>>)]

\* FlowController::can_send
can_send(fc, stream_id, sz) ==
    IF as_i32(sz) > fc.connection_window THEN FALSE
    ELSE IF stream_id \in DOMAIN fc.stream_windows
    THEN as_i32(sz) <= fc.stream_windows[stream_id]
    ELSE as_i32(sz) <= fc.initial_stream_window

\* FlowController::consume_window.  `-=` on an i32 panics on overflow in a
\* build with overflow checks and wraps in one without; a panic at the
\* second subtraction leaves the first one done.
consume_window(fc, stream_id, sz) ==
    LET c == overflowing_sub(fc.connection_window, as_i32(sz))
        windows == or_insert(fc, stream_id)
        w == overflowing_sub(windows[stream_id], as_i32(sz))
    IN  IF c.overflow /\ overflow_checks THEN [fc |-> fc, ret |-> Err("panic")]
        ELSE IF w.overflow /\ overflow_checks
        THEN [fc |-> [fc EXCEPT !.connection_window = c.val,
                                !.stream_windows = windows],
              ret |-> Err("panic")]
        ELSE [fc |-> [fc EXCEPT !.connection_window = c.val,
                                !.stream_windows =
                                    [windows EXCEPT ![stream_id] = w.val]],
              ret |-> Ok(<<>>)]

\* the inputs of the flow controller's operations
InitialWindows == {65535}
FlowStreams == {1, 3}
\* window increments: 1000 and 2^30
Deltas == {1000, 1073741824}
\* data lengths: 1000, 65535, 65536 and 2^31
DataSizes == {WOf(1000), WOf(65535), WOf(65536), <<Half \div 2, 0>>}

\* the variables after a call that returned r
FlowDone(r, call) ==
    /\ connection_window' = r.fc.connection_window
    /\ stream_windows' = r.fc.stream_windows
    /\ flow_log' = Append(flow_log, [call EXCEPT !.ret = r.ret,
                                                 !.before = Flow,
                                                 !.after = r.fc])
    /\ last' = [call EXCEPT !.ret = r.ret, !.before = Flow, !.after = r.fc]
    /\ UNCHANGED <<initial_stream_window, streamVars, connVars, hpackVars,
                   overflow_checks>>
    /\ UNCHANGED notServer

FlowCall(name, stream_id, arg) ==
    [op |-> name, stream |-> stream_id, arg |-> arg, ret |-> Ok(<<>>),
     before |-> Flow, after |-> Flow]

UpdateConnectionWindow(delta) ==
    /\ Len(flow_log) < MaxFlowCalls
    /\ \E r \in {update_connection_window(Flow, delta)} :
           FlowDone(r, FlowCall("update_connection_window", 0, delta))

UpdateStreamWindow(stream_id, delta) ==
    /\ Len(flow_log) < MaxFlowCalls
    /\ \E r \in {update_stream_window(Flow, stream_id, delta)} :
           FlowDone(r, FlowCall("update_stream_window", stream_id, delta))

ConsumeWindow(stream_id, sz) ==
    /\ Len(flow_log) < MaxFlowCalls
    /\ \E r \in {consume_window(Flow, stream_id, sz)} :
           FlowDone(r, FlowCall("consume_window", stream_id, sz))

\* can_send(stream_id, sz): a query, it changes no window
CanSend(stream_id, sz) ==
    /\ last' = [op |-> "can_send", stream |-> stream_id, arg |-> sz,
                ret |-> can_send(Flow, stream_id, sz)]
    /\ UNCHANGED <<flowVars, streamVars, connVars, hpackVars, overflow_checks>>
    /\ UNCHANGED notServer

(***************************************************************************)
(* server/mod.rs: StreamManager                                            *)
(***************************************************************************)
StreamStates == {"Idle", "Open", "HalfClosedLocal", "HalfClosedRemote", "Closed"}

\* the StreamManager as the variables hold it
Manager ==
    [streams |-> streams, next_stream_id |-> next_stream_id,
     max_concurrent_streams |-> max_concurrent_streams]

\* StreamManager::new
StreamManager_new(max_concurrent) ==
    [streams |-> <<>>, next_stream_id |-> 1,
     max_concurrent_streams |-> max_concurrent]

\* a mutant of create_stream: the counter advances before the limit is tested
create_stream_advance_first(sm) ==
    IF sm.max_concurrent_streams.some
       /\ Cardinality(DOMAIN sm.streams) >= sm.max_concurrent_streams.val
    THEN [sm |-> [sm EXCEPT !.next_stream_id = @ + 2],
          ret |-> Err("TooManyStreams")]
    ELSE [sm |-> [sm EXCEPT
                    !.next_stream_id = @ + 2,
                    !.streams = (sm.next_stream_id :> "Open") @@ @],
          ret |-> Ok(sm.next_stream_id)]

\* StreamManager::create_stream.  streams.len() counts every entry, the
\* Closed ones too.  (HashMap::insert replaces, as the entry left of @@ does.)
create_stream(sm) ==
    IF sm.max_concurrent_streams.some
       /\ Cardinality(DOMAIN sm.streams) >= sm.max_concurrent_streams.val
    THEN [sm |-> sm, ret |-> Err("TooManyStreams")]
    ELSE [sm |-> [sm EXCEPT
                    !.next_stream_id = @ + 2,
                    !.streams = (sm.next_stream_id :> "Open") @@ @],
          ret |-> Ok(sm.next_stream_id)]

\* StreamManager::get_stream
get_stream(sm, stream_id) ==
    IF stream_id \in DOMAIN sm.streams THEN Some(sm.streams[stream_id])
    ELSE None

\* StreamManager::update_stream
update_stream(sm, stream_id, st) ==
    [sm EXCEPT !.streams = (stream_id :> st) @@ @]

\* StreamManager::cleanup_closed_streams
cleanup_closed_streams(sm) ==
    [sm EXCEPT !.streams =
        [id \in {i \in DOMAIN sm.streams : sm.streams[i] # "Closed"}
            |-> sm.streams[id]]]

\* the ids update_stream and get_stream are called with
StreamIds == {1, 2}
\* the limits a manager is made with: None and Some(0), Some(1), ...
Limits == {None} \cup {Some(n) : n \in 0..MaxLimit}

\* the variables after a call on the manager
ManagerDone(sm) ==
    /\ streams' = sm.streams
    /\ next_stream_id' = sm.next_stream_id
    /\ max_concurrent_streams' = sm.max_concurrent_streams
    /\ UNCHANGED <<flowVars, connVars, hpackVars, overflow_checks>>
    /\ UNCHANGED notServer

CreateStream ==
    /\ Len(created) < MaxCreates
    /\ \E r \in {create_stream(Manager)} :
           /\ ManagerDone(r.sm)
           /\ created' = Append(created, r.ret)
           /\ last' = [op |-> "create_stream", ret |-> r.ret,
                       before |-> streams]

GetStream(stream_id) ==
    /\ ManagerDone(Manager)
    /\ UNCHANGED created
    /\ last' = [op |-> "get_stream", stream |-> stream_id,
                ret |-> get_stream(Manager, stream_id)]

UpdateStream(stream_id, st) ==
    /\ ManagerDone(update_stream(Manager, stream_id, st))
    /\ UNCHANGED created
    /\ last' = [op |-> "update_stream", stream |-> stream_id, arg |-> st,
                ret |-> Ok(<<>>), before |-> streams]

CleanupClosedStreams ==
    /\ ManagerDone(cleanup_closed_streams(Manager))
    /\ UNCHANGED created
    /\ last' = [op |-> "cleanup_closed_streams", before |-> streams]

(***************************************************************************)
(* server/connection.rs: Connection                                        *)
(*                                                                         *)
(* The bytes of the transport are modelled in units: a unit is the         *)
(* connection preface, an HTTP/1 request, a run of other text, an HTTP/2   *)
(* frame, or a run of zero bytes that a resize left in the read buffer.    *)
(***************************************************************************)
Frame(type, flags, stream_id, payload) ==
    [type |-> type, flags |-> flags, stream_id |-> stream_id,
     payload |-> payload]
Unit(type) == Frame(type, {}, 0, <<>>)

\* text units: "preface" is http2::CONNECTION_PREFACE, "req" a complete
\* request without a body, "bad" a request whose request line has no
\* version ("GET /\r\n..."), "junk" lines of text that start with no method;
\* each holds a CRLF, "req" and "bad" are at least 16 bytes long and "junk"
\* is longer than 24 bytes
TextTypes == {"preface", "req", "bad", "junk"}
\* the requests the peer sends.  The flags of a "req" unit tell its version
\* (HTTP/1.1 unless "HTTP/1.0") and its Connection header, if it has one.
Requests ==
    { Frame("req", {}, 0, <<>>),                       \* HTTP/1.1
      Frame("req", {"close"}, 0, <<>>),                \* HTTP/1.1, close
      Frame("req", {"HTTP/1.0", "keep-alive"}, 0, <<>>) }
\* zero bytes: "fill" reaches the buffer's capacity, "zeros" ends before it
ZeroTypes == {"zeros", "fill"}

\* the frames the peer sends once it has sent the preface; a frame holds
\* no CRLF
Frames ==
    { Frame("Headers", {}, 1, <<130>>),
      Frame("Headers", {}, 3, <<130>>),
      Frame("Headers", {}, 5, <<128>>),             \* index 0: a decode error
      Frame("Headers", {}, 0, <<130>>),             \* HEADERS on stream 0
      Frame("Continuation", {"END_HEADERS"}, 1, <<>>),
      Frame("Data", {"END_STREAM"}, 1, <<>>),
      Frame("Data", {}, 0, <<>>),                   \* DATA on stream 0
      Frame("Settings", {}, 0, <<0, 1, 0, 0, 0, 70>>),
      Frame("Settings", {}, 0, <<0, 5, 0, 0, 0, 100>>), \* MAX_FRAME_SIZE 100
      Frame("Settings", {"ACK"}, 0, <<>>),
      Frame("WindowUpdate", {}, 0, <<127, 255, 255, 255>>), \* by 2^31 - 1
      Frame("Unknown", {}, 0, <<>>) }               \* a type byte above 0x9

Units == {Unit(t) : t \in TextTypes \ {"req"}} \cup Requests \cup Frames

\* what one stream.read() does
Reads ==
    {[kind |-> "data", unit |-> u] : u \in Units}
        \cup {[kind |-> k, unit |-> Unit("none")] :
                 k \in {"WouldBlock", "eof", "error"}}

\* read_buffer.len() >= read_buffer.capacity()
Full(buf) == buf # <<>> /\ buf[Len(buf)].type = "fill"

\* read_buffer.resize(capacity, 0): zero bytes up to the capacity
resize(buf) ==
    IF buf # <<>> /\ buf[Len(buf)].type = "zeros"
    THEN SubSeq(buf, 1, Len(buf) - 1) \o <<Unit("fill")>>
    ELSE buf \o <<Unit("fill")>>

\* Connection::read_available: ret is the number of units the caller may
\* look at.  Only Ok(n) truncates the buffer back to what was read.
read_available(buf, rd) ==
    IF Full(buf) THEN [buf |-> buf, ret |-> Ok(Len(buf))]
    ELSE CASE rd.kind = "eof" ->
                [buf |-> resize(buf), ret |-> Err("ConnectionClosed")]
           [] rd.kind = "data" ->
                [buf |-> Append(buf, rd.unit), ret |-> Ok(Len(buf) + 1)]
           [] rd.kind = "WouldBlock" ->
                [buf |-> resize(buf), ret |-> Ok(Len(buf))]
           [] OTHER ->
                [buf |-> resize(buf), ret |-> Err("Io")]

\* &self.read_buffer[..bytes_available]: what the parser is given
Seen(buf, rd) ==
    IF read_available(buf, rd).ret.ok
    THEN SubSeq(read_available(buf, rd).buf, 1,
                read_available(buf, rd).ret.val)
    ELSE <<>>

\* Connection::consume_read_buffer: consumed counts whole units; a frame
\* cut from a run of zero bytes takes 9 bytes of the run and no unit.  What
\* stays no longer reaches the capacity.
consume_read_buffer(buf, consumed) ==
    LET rest == SubSeq(buf, consumed + 1, Len(buf))
    IN  IF Full(rest)
        THEN SubSeq(rest, 1, Len(rest) - 1) \o <<Unit("zeros")>>
        ELSE rest

\* server::detect_protocol
detect_protocol(input) ==
    IF input = <<>> THEN None
    ELSE IF input[1].type = "preface"
         THEN Some([protocol |-> "Http2", consumed |-> 1])
    ELSE IF input[1].type \in {"req", "bad"}
         THEN Some([protocol |-> "Http1", consumed |-> 0])
    ELSE None

\* Http1Parser::parse_request: without a CRLF the request is incomplete; a
\* first line that is no request line is an error
parse_request(input) ==
    IF \A i \in 1..Len(input) : input[i].type \notin TextTypes
    THEN Err("IncompleteRequest")
    ELSE IF input[1].type = "req"
         THEN Ok([request |-> input[1], consumed |-> 1])
    ELSE IF input[1].type = "bad" THEN Err("MalformedRequest")
    ELSE Err("InvalidMethod")

\* Http2Parser::parse_frame: zero bytes are the header of an empty DATA
\* frame on stream 0; text has a type byte that is no frame type
parse_frame(p, input) ==
    IF input = <<>> THEN Err("IncompleteFrame")
    ELSE IF input[1].type \in ZeroTypes
         THEN Ok([frame |-> Frame("Data", {}, 0, <<>>), consumed |-> 0])
    ELSE IF input[1].type \in TextTypes \cup {"Unknown"}
         THEN Err("UnknownFrameType")
    ELSE IF WLt(p.max_frame_size, WOf(Len(input[1].payload)))
         THEN Err("InvalidFrameSize")
    ELSE Ok([frame |-> input[1], consumed |-> 1])

\* Http2Parser::parse_settings
RECURSIVE parse_settings_loop(_, _)
parse_settings_loop(payload, offset) ==
    IF offset >= Len(payload) THEN <<>>
    ELSE <<  <<payload[offset + 1] * 256 + payload[offset + 2],
               <<payload[offset + 3] * 256 + payload[offset + 4],
                 payload[offset + 5] * 256 + payload[offset + 6]>> >>  >>
         \o parse_settings_loop(payload, offset + 6)

parse_settings(payload) ==
    IF Len(payload) % 6 # 0 THEN Err("InvalidSettings")
    ELSE Ok(parse_settings_loop(payload, 0))

\* Http2Parser::parse_headers
parse_headers(p, payload, flags) ==
    LET padded == "PADDED" \in flags
        pad_length == IF padded /\ payload # <<>> THEN payload[1] ELSE 0
        skipped == IF padded THEN 1 ELSE 0
        offset == IF "PRIORITY" \in flags THEN skipped + 5 ELSE skipped
        none == [dec |-> p.hpack_decoder, log |-> <<>>]
    IN  IF padded /\ payload = <<>>
        THEN none @@ [ret |-> Err("InvalidPadding")]
        ELSE IF "PRIORITY" \in flags /\ Len(payload) < skipped + 5
        THEN none @@ [ret |-> Err("InvalidPriority")]
        ELSE IF Len(payload) < offset + pad_length
        THEN none @@ [ret |-> Err("InvalidPadding")]
        ELSE decode(p.hpack_decoder,
                    SubSeq(payload, offset + 1, Len(payload) - pad_length))

\* the connection as the variables hold it
Conn ==
    [state |-> state, read_buffer |-> read_buffer,
     last_stream_id |-> last_stream_id, parser |-> Parser,
     streams |-> Manager, written |-> written, keep_alive |-> keep_alive]

\* Connection::new: both buffers come empty from the buffer pool
Connection_new == [state |-> "Detecting", read_buffer |-> <<>>]

\* what process() returns
Action(name) == Ok([action |-> name])
Done(c, ret) == [c |-> c, ret |-> ret, frame |-> Unit("none")]

\* Connection::detect_protocol
Connection_detect_protocol(c, rd) ==
    LET r == read_available(c.read_buffer, rd)
        c0 == [c EXCEPT !.read_buffer = r.buf]
        detection == detect_protocol(SubSeq(r.buf, 1, r.ret.val))
    IN  IF ~r.ret.ok THEN Done(c0, r.ret)
        ELSE IF r.ret.val = 0 THEN Done(c0, Action("NeedMore"))
        ELSE IF ~detection.some THEN Done(c0, Action("NeedMore"))
        ELSE IF detection.val.protocol = "Http1"
        THEN Done([c0 EXCEPT !.state = "Http1", !.keep_alive = TRUE],
                  Action("Continue"))
        ELSE Done([c0 EXCEPT
                     !.state = "Http2",
                     !.parser = Http2Parser_new,
                     !.streams = StreamManager_new(Some(100)),
                     !.last_stream_id = 0,
                     !.read_buffer =
                         consume_read_buffer(r.buf, detection.val.consumed)],
                  Action("Continue"))

\* Connection::process_http1
process_http1(c, rd) ==
    LET r == read_available(c.read_buffer, rd)
        c0 == [c EXCEPT !.read_buffer = r.buf]
        parsed == parse_request(SubSeq(r.buf, 1, r.ret.val))
    IN  IF ~r.ret.ok THEN Done(c0, r.ret)
        ELSE IF parsed.ok
        THEN Done([c0 EXCEPT
                     !.read_buffer =
                         consume_read_buffer(r.buf, parsed.val.consumed),
                     !.keep_alive = "keep-alive" \in parsed.val.request.flags],
                  Ok([action |-> "Request", protocol |-> "Http1",
                      request |-> parsed.val.request]))
        ELSE IF parsed.err = "IncompleteRequest"
        THEN Done(c0, Action("NeedMore"))
        ELSE Done(c0, Err("ParseError"))

\* process_http2, the HEADERS arm
on_headers(c, frame) ==
    LET newer == frame.stream_id > c.last_stream_id
        cr == create_stream(c.streams)
        c1 == IF newer
              THEN [c EXCEPT !.last_stream_id = frame.stream_id,
                             !.streams = cr.sm]
              ELSE c
        ph == parse_headers(c1.parser, frame.payload, frame.flags)
        c2 == [c1 EXCEPT !.parser.hpack_decoder = ph.dec]
    IN  IF newer /\ ~cr.ret.ok THEN [c |-> c1, ret |-> cr.ret]
        ELSE IF ~ph.ret.ok THEN [c |-> c2, ret |-> ph.ret]
        ELSE [c |-> c2,
              ret |-> Ok([action |-> "Request", protocol |-> "Http2",
                          stream_id |-> frame.stream_id])]

\* process_http2, the SETTINGS arm; send_settings_ack writes a SETTINGS
\* frame with the ACK flag on stream 0
on_settings(c, frame) ==
    LET ps == parse_settings(frame.payload)
        us == update_settings(c.parser, ps.val)
    IN  IF ~ps.ok THEN [c |-> c, ret |-> ps]
        ELSE IF ~us.ret.ok THEN [c |-> [c EXCEPT !.parser = us.p], ret |-> us.ret]
        ELSE [c |-> [c EXCEPT !.parser = us.p,
                              !.written = Append(@, Frame("Settings", {"ACK"}, 0, <<>>))],
              ret |-> Action("Continue")]

\* process_http2, the match on frame.header.frame_type
on_frame(c, frame) ==
    CASE frame.type = "Headers" -> on_headers(c, frame)
      [] frame.type = "Data" ->
            [c |-> c,
             ret |-> Ok([action |-> "Data", stream_id |-> frame.stream_id,
                         end_stream |-> "END_STREAM" \in frame.flags])]
      [] frame.type = "Settings" -> on_settings(c, frame)
      [] OTHER -> [c |-> c, ret |-> Action("Continue")]

\* a mutant of process_http2: the protocol is detected again on every call
process_http2_redetect(c, rd) == Connection_detect_protocol(c, rd)

\* Connection::process_http2
process_http2(c, rd) ==
    LET r == read_available(c.read_buffer, rd)
        c0 == [c EXCEPT !.read_buffer = r.buf]
        parsed == parse_frame(c.parser, SubSeq(r.buf, 1, r.ret.val))
        c1 == [c0 EXCEPT !.read_buffer =
                   consume_read_buffer(r.buf, parsed.val.consumed)]
    IN  IF ~r.ret.ok THEN Done(c0, r.ret)
        ELSE IF parsed.ok
        THEN on_frame(c1, parsed.val.frame) @@ [frame |-> parsed.val.frame]
        ELSE IF parsed.err = "IncompleteFrame"
        THEN Done(c0, Action("NeedMore"))
        ELSE Done(c0, Err("ParseError"))

\* Connection::process
process(c, rd) ==
    CASE c.state = "Detecting" -> Connection_detect_protocol(c, rd)
      [] c.state = "Http1" -> process_http1(c, rd)
      [] c.state = "Http2" -> process_http2(c, rd)
      [] c.state = "Closing" -> Done(c, Action("Close"))

\* Connection::should_keep_alive
should_keep_alive(c) ==
    CASE c.state = "Http1" -> c.keep_alive
      [] c.state = "Http2" -> TRUE
      [] OTHER -> FALSE

\* the ConnectionConfig the connection is made with, in ticks
Config == [read_timeout |-> 1, keep_alive_timeout |-> 2]

\* Connection::is_timed_out, elapsed being last_activity.elapsed()
is_timed_out(c, elapsed) ==
    elapsed > (IF c.state = "Detecting" THEN Config.read_timeout
               ELSE Config.keep_alive_timeout)

\* whether read_available calls stream.read()
Reading == state # "Closing" /\ ~Full(read_buffer)

\* time passes; it is followed until the connection has timed out
Tick ==
    /\ processed < MaxProcess
    /\ ~is_timed_out(Conn, idle)
    /\ idle' = idle + 1
    /\ UNCHANGED <<state, read_buffer, last_stream_id, transport, written,
                   processed, keep_alive, arrived, surfaced>>
    /\ UNCHANGED <<flowVars, streamVars, hpackVars, intVars, last>>
    /\ UNCHANGED notServer

\* one call of process(); stream.read() returns 0 again once it has
Process(rd) ==
    /\ processed < MaxProcess
    /\ rd.unit \in Frames =>
           \E i \in 1..Len(arrived) : arrived[i].type = "preface"
    /\ transport = "eof" => rd.kind = "eof"
    /\ \E r \in {process(Conn, rd)} :
           /\ state' = r.c.state
           /\ read_buffer' = r.c.read_buffer
           /\ last_stream_id' = r.c.last_stream_id
           /\ written' = r.c.written
           /\ keep_alive' = r.c.keep_alive
           /\ surfaced' =
                  IF r.ret.ok /\ r.ret.val.action = "Request"
                     /\ r.ret.val.protocol = "Http1"
                  THEN Append(surfaced, r.ret.val.request)
                  ELSE surfaced
           /\ settings' = r.c.parser.settings
           /\ max_frame_size' = r.c.parser.max_frame_size
           /\ dynamic_table' = r.c.parser.hpack_decoder.dynamic_table
           /\ dynamic_table_size' = r.c.parser.hpack_decoder.dynamic_table_size
           /\ max_dynamic_table_size' =
                  r.c.parser.hpack_decoder.max_dynamic_table_size
           /\ streams' = r.c.streams.streams
           /\ next_stream_id' = r.c.streams.next_stream_id
           /\ max_concurrent_streams' = r.c.streams.max_concurrent_streams
           /\ last' = [op |-> "process", ret |-> r.ret,
                       frame |-> r.frame, state |-> state,
                       last_stream_id |-> last_stream_id,
                       read |-> IF Reading THEN rd.kind ELSE "none",
                       read_buffer |-> read_buffer,
                       seen |-> Seen(read_buffer, rd),
                       written |-> Len(written),
                       timed_out |-> is_timed_out(Conn, idle)]
    /\ arrived' =
           IF Reading /\ rd.kind = "data" THEN Append(arrived, rd.unit)
           ELSE arrived
    /\ idle' = 0
    /\ transport' =
           IF rd.kind = "eof" /\ ~Full(read_buffer) THEN "eof" ELSE transport
    /\ processed' = processed + 1
    /\ UNCHANGED <<flowVars, created, intVars>>
    /\ UNCHANGED notServer

(***************************************************************************)
(* server/http1.rs: Http1Parser, on bytes.  A byte is a one-character      *)
(* string; offsets count from 0 as in the source.  The finders of          *)
(* utils/simd.rs are modelled by their portable (non-AVX2) bodies; the     *)
(* AVX2 bodies return the same but for header names of 32 bytes or more.   *)
(***************************************************************************)
Take(input, k) == SubSeq(input, 1, k)
Slice(input, from, to) == SubSeq(input, from + 1, to)
Least(S) == CHOOSE x \in S : \A y \in S : x <= y

\* SimdCrlfFinder::find_crlf
find_crlf(haystack) ==
    LET at == {i \in 1..(Len(haystack) - 1) :
                  haystack[i] = "\r" /\ haystack[i + 1] = "\n"}
    IN  IF at = {} THEN None ELSE Some(Least(at) - 1)

\* SimdDelimiterFinder::find_in
find_in(delimiter, haystack) ==
    LET at == {i \in 1..Len(haystack) : haystack[i] = delimiter}
    IN  IF at = {} THEN None ELSE Some(Least(at) - 1)

Upper ==
    {"A", "B", "C", "D", "E", "F", "G", "H", "I", "J", "K", "L", "M", "N",
      "O", "P", "Q", "R", "S", "T", "U", "V", "W", "X", "Y", "Z"}
Lower ==
    {"a", "b", "c", "d", "e", "f", "g", "h", "i", "j", "k", "l", "m", "n",
      "o", "p", "q", "r", "s", "t", "u", "v", "w", "x", "y", "z"}
Digit == {"0", "1", "2", "3", "4", "5", "6", "7", "8", "9"}
\* the other bytes SimdTokenValidator::is_valid_token accepts, but for the
\* grave accent, which no request of the model holds
TokenMarks ==
    {"!", "#", "$", "%", "&", "'", "*", "+", "-", ".", "^", "_", "|", "~"}

\* SimdTokenValidator::is_valid_token
is_valid_token(input) ==
    /\ input # <<>>
    /\ \A i \in 1..Len(input) :
           input[i] \in Upper \cup Lower \cup Digit \cup TokenMarks

\* SimdWhitespaceSkipper::skip_whitespace
skip_whitespace(input) ==
    LET at == {i \in 1..Len(input) : input[i] \notin {" ", "\t"}}
    IN  IF at = {} THEN <<>> ELSE From(input, Least(at) - 1)

\* u8::to_ascii_lowercase, for eq_ignore_ascii_case and to_lowercase
UpperSeq ==
    <<"A", "B", "C", "D", "E", "F", "G", "H", "I", "J", "K", "L", "M", "N",
      "O", "P", "Q", "R", "S", "T", "U", "V", "W", "X", "Y", "Z">>
LowerSeq ==
    <<"a", "b", "c", "d", "e", "f", "g", "h", "i", "j", "k", "l", "m", "n",
      "o", "p", "q", "r", "s", "t", "u", "v", "w", "x", "y", "z">>
to_lowercase(input) ==
    [i \in 1..Len(input) |->
        IF input[i] \in Upper
        THEN LowerSeq[CHOOSE k \in 1..26 : UpperSeq[k] = input[i]]
        ELSE input[i]]

\* the methods Method::from_bytes knows
Methods ==
    { <<"G", "E", "T">>,
      <<"P", "U", "T">>,
      <<"H", "E", "A", "D">>,
      <<"P", "O", "S", "T">>,
      <<"P", "A", "T", "C", "H">>,
      <<"T", "R", "A", "C", "E">>,
      <<"D", "E", "L", "E", "T", "E">>,
      <<"C", "O", "N", "N", "E", "C", "T">>,
      <<"O", "P", "T", "I", "O", "N", "S">> }

\* Method::from_bytes
Method_from_bytes(bytes) ==
    IF bytes \in Methods THEN Ok(bytes) ELSE Err("InvalidMethod")

\* Http1Parser::parse_version
parse_version(input) ==
    IF Len(input) < 8 \/ Take(input, 5) # <<"H", "T", "T", "P", "/">>
    THEN Err("InvalidVersion")
    ELSE IF input[6] \notin {"0", "1", "2", "3"} THEN Err("InvalidVersion")
    ELSE IF input[7] # "." THEN Err("InvalidVersion")
    ELSE IF input[8] \notin {"0", "1", "9"} THEN Err("InvalidVersion")
    ELSE Ok([major |-> input[6], minor |-> input[8]])

\* Http1Parser::parse_request_line, from the method on
request_line_parts(line, line_end) ==
    LET method_end == find_in(" ", line)
        method == Method_from_bytes(Take(line, method_end.val))
        uri_start == method_end.val + 1
        uri_len == find_in(" ", From(line, uri_start))
        uri_end == uri_start + uri_len.val
        version == parse_version(From(line, uri_end + 1))
    IN  IF ~method_end.some THEN Err("MalformedRequest")
        ELSE IF ~method.ok THEN method
        ELSE IF ~uri_len.some THEN Err("MalformedRequest")
        ELSE IF ~version.ok THEN version
        ELSE Ok([method |-> method.val,
                 uri |-> Slice(line, uri_start, uri_end),
                 version |-> version.val,
                 line_end |-> line_end + 2])

\* Http1Parser::parse_request_line
parse_request_line(input) ==
    LET line_end == find_crlf(input)
    IN  IF ~line_end.some THEN Err("IncompleteRequest")
        ELSE request_line_parts(Take(input, line_end.val), line_end.val)

Greatest(S) == CHOOSE x \in S : \A y \in S : y <= x
CRLF == <<"\r", "\n">>

\* Http1Parser::parse_header
parse_header(line) ==
    LET colon_pos == find_in(":", line)
        name_bytes == Take(line, colon_pos.val)
        value_bytes == skip_whitespace(From(line, colon_pos.val + 1))
        kept == {i \in 1..Len(value_bytes) : value_bytes[i] \notin {" ", "\t"}}
        value_end == IF kept = {} THEN 0 ELSE Greatest(kept)
    IN  IF ~colon_pos.some THEN Err("InvalidHeader")
        ELSE IF ~is_valid_token(name_bytes) THEN Err("InvalidHeaderName")
        ELSE Ok([name |-> name_bytes, value |-> Take(value_bytes, value_end)])

\* Http1Parser::parse_headers, the loop (max_headers is 100)
RECURSIVE parse_headers_loop(_, _, _)
parse_headers_loop(input, offset, headers) ==
    IF offset >= Len(input) THEN Err("IncompleteRequest")
    ELSE IF offset + 2 <= Len(input) /\ Slice(input, offset, offset + 2) = CRLF
    THEN Ok([headers |-> headers, headers_end |-> offset + 2])
    ELSE LET line_end == find_crlf(From(input, offset))
             header == parse_header(Slice(input, offset, offset + line_end.val))
         IN  IF ~line_end.some THEN Err("IncompleteRequest")
             ELSE IF ~header.ok THEN header
             ELSE IF Len(headers) + 1 > 100 THEN Err("TooManyHeaders")
             ELSE parse_headers_loop(input, offset + line_end.val + 2,
                                     Append(headers, header.val))

\* the digits of usize::from_str_radix, by value
Digits == <<"0", "1", "2", "3", "4", "5", "6", "7", "8", "9", "a", "b",
  "c", "d", "e", "f">>

\* usize::from_str_radix after an optional "+", and str::parse::<usize>
RECURSIVE from_digits(_, _, _)
from_digits(src, radix, acc) ==
    IF src = <<>> THEN Ok(acc)
    ELSE LET at == {k \in 1..radix : Digits[k] = to_lowercase(<<src[1]>>)[1]}
         IN  IF at = {} THEN Err("ParseIntError")
             ELSE from_digits(Tail(src), radix, acc * radix + (Least(at) - 1))

from_str_radix(src, radix) ==
    LET digits == IF src # <<>> /\ src[1] = "+" THEN Tail(src) ELSE src
    IN  IF digits = <<>> THEN Err("ParseIntError")
        ELSE from_digits(digits, radix, 0)

\* str::trim
trim(input) ==
    LET kept == {i \in 1..Len(input) : input[i] \notin {" ", "\t", "\r", "\n"}}
    IN  IF kept = {} THEN <<>> ELSE SubSeq(input, Least(kept), Greatest(kept))

\* Http1Parser::parse_chunk_size
parse_chunk_size(input) ==
    LET semicolon == find_in(";", input)
        size_part == trim(IF semicolon.some THEN Take(input, semicolon.val)
                          ELSE input)
    IN  IF from_str_radix(size_part, 16).ok THEN from_str_radix(size_part, 16)
        ELSE Err("InvalidChunkSize")

\* Http1Parser::skip_trailer_headers
RECURSIVE skip_trailer_loop(_, _)
skip_trailer_loop(input, offset) ==
    IF offset + 2 > Len(input) THEN Err("IncompleteRequest")
    ELSE IF Slice(input, offset, offset + 2) = CRLF THEN Ok(offset + 2)
    ELSE LET line_end == find_crlf(From(input, offset))
         IN  IF ~line_end.some THEN Err("IncompleteRequest")
             ELSE skip_trailer_loop(input, offset + line_end.val + 2)

skip_trailer_headers(input) == skip_trailer_loop(input, 0)

\* Http1Parser::extract_chunked_body, the first pass (max_request_size is
\* 1024 * 1024)
RECURSIVE validate_chunks(_, _, _)
validate_chunks(input, offset, total_size) ==
    IF offset >= Len(input) THEN Err("IncompleteRequest")
    ELSE LET chunk_line_end == find_crlf(From(input, offset))
             chunk_size == parse_chunk_size(
                 Slice(input, offset, offset + chunk_line_end.val))
             data == offset + chunk_line_end.val + 2
             trailers == skip_trailer_headers(From(input, data))
         IN  IF ~chunk_line_end.some THEN Err("IncompleteRequest")
             ELSE IF ~chunk_size.ok THEN chunk_size
             ELSE IF chunk_size.val = 0
             THEN (IF trailers.ok THEN Ok(total_size) ELSE trailers)
             ELSE IF data + chunk_size.val + 2 > Len(input)
             THEN Err("IncompleteRequest")
             ELSE IF total_size + chunk_size.val > 1048576
             THEN Err("RequestTooLarge")
             ELSE validate_chunks(input, data + chunk_size.val + 2,
                                  total_size + chunk_size.val)

\* Http1Parser::extract_chunked_body, the second pass
RECURSIVE collect_chunks(_, _, _)
collect_chunks(input, parse_offset, body) ==
    LET chunk_line_end == find_crlf(From(input, parse_offset)).val
        chunk_size == parse_chunk_size(
            Slice(input, parse_offset, parse_offset + chunk_line_end)).val
        data == parse_offset + chunk_line_end + 2
    IN  IF chunk_size = 0 THEN body
        ELSE collect_chunks(input, data + chunk_size + 2,
                            body \o Slice(input, data, data + chunk_size))

\* Http1Parser::extract_chunked_body
extract_chunked_body(input) ==
    IF validate_chunks(input, 0, 0).ok
    THEN Ok(Some(collect_chunks(input, 0, <<>>)))
    ELSE validate_chunks(input, 0, 0)

\* str::contains
contains(input, pattern) ==
    \E i \in 0..(Len(input) - Len(pattern)) :
        Slice(input, i, i + Len(pattern)) = pattern

\* a mutant of extract_body: a body shorter than Content-Length is returned
\* as far as it has arrived
extract_body_truncating(headers, remaining) ==
    LET is_chunked ==
            \E i \in 1..Len(headers) :
                /\ to_lowercase(headers[i].name) =
                    <<"t", "r", "a", "n", "s", "f", "e", "r", "-", "e",
                      "n", "c", "o", "d", "i", "n", "g">>
                /\ contains(to_lowercase(headers[i].value),
                             <<"c", "h", "u", "n", "k", "e", "d">>)
        sized == {i \in 1..Len(headers) :
                     to_lowercase(headers[i].name) =
                        <<"c", "o", "n", "t", "e", "n", "t", "-", "l", "e",
                          "n", "g", "t", "h">>}
        length == from_str_radix(headers[Least(sized)].value, 10)
    IN  IF is_chunked THEN extract_chunked_body(remaining)
        ELSE IF sized = {} THEN Ok(None)
        ELSE IF ~length.ok THEN Err("InvalidContentLength")
        ELSE IF length.val > 1048576 THEN Err("RequestTooLarge")
        ELSE IF Len(remaining) < length.val THEN Ok(Some(remaining))
        ELSE Ok(Some(Take(remaining, length.val)))

\* Http1Parser::extract_body
extract_body(headers, remaining) ==
    LET is_chunked ==
            \E i \in 1..Len(headers) :
                /\ to_lowercase(headers[i].name) =
                    <<"t", "r", "a", "n", "s", "f", "e", "r", "-", "e",
                      "n", "c", "o", "d", "i", "n", "g">>
                /\ contains(to_lowercase(headers[i].value),
                             <<"c", "h", "u", "n", "k", "e", "d">>)
        sized == {i \in 1..Len(headers) :
                     to_lowercase(headers[i].name) =
                        <<"c", "o", "n", "t", "e", "n", "t", "-", "l", "e",
                          "n", "g", "t", "h">>}
        length == from_str_radix(headers[Least(sized)].value, 10)
    IN  IF is_chunked THEN extract_chunked_body(remaining)
        ELSE IF sized = {} THEN Ok(None)
        ELSE IF ~length.ok THEN Err("InvalidContentLength")
        ELSE IF length.val > 1048576 THEN Err("RequestTooLarge")
        ELSE IF Len(remaining) < length.val THEN Err("IncompleteRequest")
        ELSE Ok(Some(Take(remaining, length.val)))

\* Http1Parser::parse_request
Http1Parser_parse_request(input) ==
    LET line == parse_request_line(input)
        parsed == parse_headers_loop(From(input, line.val.line_end), 0, <<>>)
        offset == line.val.line_end + parsed.val.headers_end
        body == extract_body(parsed.val.headers, From(input, offset))
    IN  IF input = <<>> THEN Err("IncompleteRequest")
        ELSE IF ~line.ok THEN line
        ELSE IF ~parsed.ok THEN parsed
        ELSE IF ~body.ok THEN body
        ELSE Ok([request |-> [method |-> line.val.method,
                              uri |-> line.val.uri,
                              version |-> line.val.version,
                              headers |-> parsed.val.headers,
                              body |-> body.val],
                 consumed |-> IF body.val.some
                              THEN offset + Len(body.val.val)
                              ELSE offset])

(***************************************************************************)
(* server/connection.rs on bytes: one valid HTTP/1 request arrives either  *)
(* in one read or one byte per read.  "zeros" stands for the zero bytes    *)
(* resize(capacity, 0) leaves behind when stream.read() would block.       *)
(***************************************************************************)
CONNECTION_PREFACE ==
    <<"P", "R", "I", " ", "*", " ", "H", "T", "T", "P", "/", "2", ".", "0",
      "\r", "\n", "\r", "\n", "S", "M", "\r", "\n", "\r", "\n">>

starts_with(input, prefix) ==
    Len(input) >= Len(prefix) /\ Take(input, Len(prefix)) = prefix

\* server::detect_http1_method_simd, the fallback and the AVX2 build
detect_http1_method_simd(input, avx2) ==
    IF avx2
    THEN \/ /\ Len(input) >= 4
            /\ Take(input, 4) \in {<<"G", "E", "T", " ">>,
                                   <<"P", "O", "S", "T">>,
                                   <<"P", "U", "T", " ">>,
                                   <<"H", "E", "A", "D">>}
         \/ \E method \in Methods :
                Len(method) > 4 /\ starts_with(input, Append(method, " "))
    ELSE \E method \in Methods : starts_with(input, Append(method, " "))

\* server::detect_protocol
server_detect_protocol(input, avx2) ==
    IF Len(input) >= 24 /\ Take(input, 24) = CONNECTION_PREFACE
    THEN Some([protocol |-> "Http2", consumed |-> 24])
    ELSE IF Len(input) >= 16 /\ detect_http1_method_simd(input, avx2)
    THEN Some([protocol |-> "Http1", consumed |-> 0])
    ELSE None

FullBytes(buf) == buf # <<>> /\ buf[Len(buf)] = "zeros"

\* Connection::read_available on a transport that hands out `chunk` bytes
\* per read and would block once it has nothing pending
read_available_bytes(buf, tr) ==
    LET n == IF tr.chunk < Len(tr.pending) THEN tr.chunk ELSE Len(tr.pending)
    IN  IF FullBytes(buf)
        THEN [buf |-> buf, n |-> 0, ret |-> Len(buf)]
        ELSE IF n = 0
        THEN [buf |-> Append(buf, "zeros"), n |-> 0, ret |-> Len(buf)]
        ELSE [buf |-> buf \o Take(tr.pending, n), n |-> n,
              ret |-> Len(buf) + n]

\* Connection::consume_read_buffer
consume_bytes(buf, consumed) ==
    IF FullBytes(buf) THEN From(buf, consumed)
    ELSE IF consumed >= Len(buf) THEN <<>>
    ELSE From(buf, consumed)

Bytes(st, ka, r, ret, consumed) ==
    [state |-> st, keep_alive |-> ka, n |-> r.n,
     read_buffer |-> consume_bytes(r.buf, consumed),
     seen |-> Take(r.buf, r.ret), ret |-> ret, consumed |-> consumed]

\* Connection::detect_protocol
detect_bytes(ka, r, avx2) ==
    LET detection == server_detect_protocol(Take(r.buf, r.ret), avx2)
    IN  IF r.ret = 0 THEN Bytes("Detecting", ka, r, Action("NeedMore"), 0)
        ELSE IF ~detection.some
        THEN Bytes("Detecting", ka, r, Action("NeedMore"), 0)
        ELSE IF detection.val.protocol = "Http1"
        THEN Bytes("Http1", TRUE, r, Action("Continue"), 0)
        ELSE Bytes("Http2", ka, r, Action("Continue"),
                   detection.val.consumed)

\* Connection::process_http1
process_http1_bytes(ka, r) ==
    LET parsed == Http1Parser_parse_request(Take(r.buf, r.ret))
        headers == parsed.val.request.headers
    IN  IF parsed.ok
        THEN Bytes("Http1",
                   \E i \in 1..Len(headers) :
                       /\ to_lowercase(headers[i].name) = <<"c", "o", "n",
                                                            "n", "e", "c",
                                                            "t", "i", "o",
                                                            "n">>
                       /\ to_lowercase(headers[i].value) = <<"k", "e", "e",
                                                             "p", "-", "a",
                                                             "l", "i", "v",
                                                             "e">>,
                   r,
                   Ok([action |-> "Request", request |-> parsed.val.request]),
                   parsed.val.consumed)
        ELSE IF parsed.err = "IncompleteRequest"
        THEN Bytes("Http1", ka, r, Action("NeedMore"), 0)
        ELSE Bytes("Http1", ka, r, Err("ParseError"), 0)

\* Connection::process, before and after an HTTP/1 request
process_bytes(st, ka, buf, tr) ==
    IF st = "Detecting"
    THEN detect_bytes(ka, read_available_bytes(buf, tr), tr.avx2)
    ELSE process_http1_bytes(ka, read_available_bytes(buf, tr))

\* the requests that arrive, and what may follow one on the wire
ValidRequests ==
    { <<"G", "E", "T", " ", "/", " ", "H", "T", "T", "P", "/", "1", ".",
        "1", "\r", "\n", "\r", "\n">>,
      <<"P", "O", "S", "T", " ", "/", "a", " ", "H", "T", "T", "P", "/",
        "1", ".", "1", "\r", "\n", "C", "o", "n", "t", "e", "n", "t", "-",
        "L", "e", "n", "g", "t", "h", ":", " ", "2", "\r", "\n", "\r",
        "\n", "h", "i">>,
      <<"P", "O", "S", "T", " ", "/", "a", " ", "H", "T", "T", "P", "/",
        "1", ".", "1", "\r", "\n", "T", "r", "a", "n", "s", "f", "e", "r",
        "-", "E", "n", "c", "o", "d", "i", "n", "g", ":", " ", "c", "h",
        "u", "n", "k", "e", "d", "\r", "\n", "\r", "\n", "2", "\r", "\n",
        "h", "i", "\r", "\n", "0", "\r", "\n", "\r", "\n">>,
      <<"P", "U", "T", " ", "/", "a", " ", "H", "T", "T", "P", "/", "1",
        ".", "1", "\r", "\n", "T", "r", "a", "n", "s", "f", "e", "r", "-",
        "E", "n", "c", "o", "d", "i", "n", "g", ":", " ", "c", "h", "u",
        "n", "k", "e", "d", "\r", "\n", "\r", "\n", "1", ";", "x", "\r",
        "\n", "h", "\r", "\n", "0", "\r", "\n", "X", ":", " ", "y", "\r",
        "\n", "\r", "\n">>,
      <<"D", "E", "L", "E", "T", "E", " ", "/", "a", " ", "H", "T", "T",
        "P", "/", "1", ".", "0", "\r", "\n", "C", "o", "n", "n", "e", "c",
        "t", "i", "o", "n", ":", " ", "K", "e", "e", "p", "-", "A", "l",
        "i", "v", "e", "\r", "\n", "\r", "\n">> }
Following == {<<>>, <<"G", "E", "T", " ">>}

\* one call of process(), until the request has been surfaced
ProcessBytes ==
    /\ state \in {"Detecting", "Http1"}
    /\ surfaced = <<>>
    /\ \E r \in {process_bytes(state, keep_alive, read_buffer, transport)} :
           /\ state' = r.state
           /\ keep_alive' = r.keep_alive
           /\ read_buffer' = r.read_buffer
           /\ arrived' = arrived \o Take(transport.pending, r.n)
           /\ transport' =
                  [transport EXCEPT !.pending = From(transport.pending, r.n)]
           /\ surfaced' =
                  IF r.ret.ok /\ r.ret.val.action = "Request"
                  THEN <<r.ret.val.request>>
                  ELSE surfaced
           /\ last' = [op |-> "process_bytes", ret |-> r.ret,
                       state |-> state, seen |-> r.seen,
                       consumed |-> r.consumed]
    /\ processed' = processed + 1
    /\ idle' = 0
    /\ UNCHANGED <<last_stream_id, written>>
    /\ UNCHANGED <<flowVars, streamVars, hpackVars, intVars>>
    /\ UNCHANGED notServer


(***************************************************************************)
(* utils/atomic.rs: AtomicStack.  One caller: a call runs from its load of *)
(* head to its return before the next call starts, so every               *)
(* compare_exchange succeeds.                                              *)
(***************************************************************************)
Node(value, next) == [value |-> value, next |-> next]
Stack == [head |-> head, nodes |-> nodes]

\* AtomicStack::new
AtomicStack_new(capacity) ==
    [head |-> 0,
     nodes |-> [i \in 0..(capacity - 1) |->
                   Node(None, IF i = capacity - 1 THEN Sentinel ELSE i + 1)]]

\* nodes.len()
nodes_len(st) == Cardinality(DOMAIN st.nodes)

\* AtomicStack::push
AtomicStack_push(st, value) ==
    IF st.head >= nodes_len(st) THEN [st |-> st, ret |-> FALSE]
    ELSE [st |-> [head |-> st.nodes[st.head].next,
                  nodes |-> [st.nodes EXCEPT ![st.head].value = Some(value)]],
          ret |-> TRUE]

\* AtomicStack::pop
AtomicStack_pop(st) ==
    IF st.head = Sentinel \/ st.head >= nodes_len(st)
    THEN [st |-> st, ret |-> None]
    ELSE [st |-> [head |-> st.nodes[st.head].next,
                  nodes |-> [st.nodes EXCEPT
                               ![st.head] = Node(None, st.nodes[st.head].next)]],
          ret |-> st.nodes[st.head].value]

StackValues == {1, 2}

Push(value) ==
    /\ stack_calls < MaxStackCalls
    /\ \E r \in {AtomicStack_push(Stack, value)} :
           /\ head' = r.st.head
           /\ nodes' = r.st.nodes
           /\ pending' = IF r.ret THEN Append(pending, value) ELSE pending
           /\ last' = [op |-> "push", ret |-> r.ret, pending |-> pending]
    /\ stack_calls' = stack_calls + 1
    /\ UNCHANGED scan_input
    /\ UNCHANGED notStack

Pop ==
    /\ stack_calls < MaxStackCalls
    /\ \E r \in {AtomicStack_pop(Stack)} :
           /\ head' = r.st.head
           /\ nodes' = r.st.nodes
           /\ last' = [op |-> "pop", ret |-> r.ret, pending |-> pending]
    /\ pending' = SubSeq(pending, 1, Len(pending) - 1)
    /\ stack_calls' = stack_calls + 1
    /\ UNCHANGED scan_input
    /\ UNCHANGED notStack


(***************************************************************************)
(* utils/simd.rs, the AVX2 builds of the scanners.  The operators above    *)
(* (find_in, find_crlf, is_valid_token) are the builds without AVX2.       *)
(***************************************************************************)
\* the byte 0x00, which no TLA+ string escape writes
NUL == "NUL"

\* the bytes 0x21..=0x7E that are no token characters
Separators ==
    {"(", ")", "<", ">", "@", ",", ";", ":", "\\", "\"", "/", "[", "]", "?",
     "=", "{", "}"}

\* what ge_min AND le_max of is_valid_token lets through: 0x21..=0x7E
\* (the comparisons are signed, so 0x80..=0xFF are below 0x21)
in_range == Upper \cup Lower \cup Digit \cup TokenMarks \cup Separators

\* the loop `while offset + 32 <= len` of is_valid_token and the scalar
\* check of the remaining bytes
RECURSIVE is_valid_token_chunks(_, _)
is_valid_token_chunks(input, offset) ==
    IF offset + 32 <= Len(input)
    THEN IF \E i \in (offset + 1)..(offset + 32) : input[i] \notin in_range
         THEN FALSE
         ELSE is_valid_token_chunks(input, offset + 32)
    ELSE \A i \in (offset + 1)..Len(input) :
             input[i] \in Upper \cup Lower \cup Digit \cup TokenMarks

\* SimdTokenValidator::is_valid_token, target_feature = "avx2"
is_valid_token_avx2(input) ==
    /\ input # <<>>
    /\ is_valid_token_chunks(input, 0)

\* the set bits of `mask`: the bytes of the chunk at `offset` equal to the
\* delimiter (as indices from 1)
cmp_mask(delimiter, haystack, offset, width) ==
    {i \in (offset + 1)..(offset + width) : haystack[i] = delimiter}

\* the 16-byte SSE2 step of find_in and the scalar search after it
find_in_tail(delimiter, haystack, offset) ==
    IF /\ offset + 16 <= Len(haystack)
       /\ cmp_mask(delimiter, haystack, offset, 16) # {}
    THEN Some(Least(cmp_mask(delimiter, haystack, offset, 16)) - 1)
    ELSE LET rest == IF offset + 16 <= Len(haystack)
                     THEN offset + 16 ELSE offset
             at == {i \in (rest + 1)..Len(haystack) : haystack[i] = delimiter}
         IN  IF at = {} THEN None ELSE Some(Least(at) - 1)

\* the loop `while offset + 32 <= len` of find_in
RECURSIVE find_in_chunks(_, _, _)
find_in_chunks(delimiter, haystack, offset) ==
    IF offset + 32 <= Len(haystack)
    THEN IF cmp_mask(delimiter, haystack, offset, 32) # {}
         THEN Some(Least(cmp_mask(delimiter, haystack, offset, 32)) - 1)
         ELSE find_in_chunks(delimiter, haystack, offset + 32)
    ELSE find_in_tail(delimiter, haystack, offset)

\* SimdDelimiterFinder::find_in, target_feature = "avx2"
find_in_avx2(delimiter, haystack) == find_in_chunks(delimiter, haystack, 0)

\* the bits of cr_mask whose next byte is a line feed
cr_mask(haystack, offset) ==
    {i \in (offset + 1)..(offset + 32) :
        /\ haystack[i] = "\r"
        /\ i + 1 <= Len(haystack)
        /\ haystack[i + 1] = "\n"}

\* the loop `while offset + 33 <= len` of find_crlf and windows(2) over
\* the remaining bytes
RECURSIVE find_crlf_chunks(_, _)
find_crlf_chunks(haystack, offset) ==
    IF offset + 33 <= Len(haystack)
    THEN IF cr_mask(haystack, offset) # {}
         THEN Some(Least(cr_mask(haystack, offset)) - 1)
         ELSE find_crlf_chunks(haystack, offset + 32)
    ELSE IF {i \in (offset + 1)..(Len(haystack) - 1) :
                haystack[i] = "\r" /\ haystack[i + 1] = "\n"} = {}
         THEN None
         ELSE Some(Least({i \in (offset + 1)..(Len(haystack) - 1) :
                             haystack[i] = "\r" /\ haystack[i + 1] = "\n"}) - 1)

\* SimdCrlfFinder::find_crlf, target_feature = "avx2"
find_crlf_avx2(haystack) ==
    IF Len(haystack) < 2 THEN None ELSE find_crlf_chunks(haystack, 0)

\* the slices scanned: a run of token characters with up to two neighbouring
\* bytes of it replaced by a delimiter, a carriage return, a line feed, a
\* space or NUL
ScanBytes == {"a", ":", "\r", "\n", " ", NUL}
ScanInputs ==
    {<<>>} \cup
    UNION {UNION {{[[i \in 1..n |-> "a"] EXCEPT ![p] = c, ![q] = d] :
                      q \in {p, p + 1} \cap (1..n),
                      c \in ScanBytes, d \in ScanBytes} :
                  p \in 1..n} : n \in 1..MaxScanLen}
Delimiters == {":", " "}

IsValidToken ==
    /\ last' = [op |-> "is_valid_token",
                scalar |-> is_valid_token(scan_input),
                avx2 |-> is_valid_token_avx2(scan_input)]
    /\ UNCHANGED <<scan_input, stackVars>>
    /\ UNCHANGED notStack

FindIn(delimiter) ==
    /\ last' = [op |-> "find_in", delimiter |-> delimiter,
                scalar |-> find_in(delimiter, scan_input),
                avx2 |-> find_in_avx2(delimiter, scan_input)]
    /\ UNCHANGED <<scan_input, stackVars>>
    /\ UNCHANGED notStack

FindCrlf ==
    /\ last' = [op |-> "find_crlf",
                scalar |-> find_crlf(scan_input),
                avx2 |-> find_crlf_avx2(scan_input)]
    /\ UNCHANGED <<scan_input, stackVars>>
    /\ UNCHANGED notStack


ThreadsInit ==
    /\ pc = [t \in Threads |-> "idle"]
    /\ op = [t \in Threads |-> "none"]
    /\ word_idx = [t \in Threads |-> 0]
    /\ current = [t \in Threads |-> {}]
    /\ calls = 0
    /\ result = [t \in Threads |-> None]
    /\ oob = {}
    /\ last = [op |-> "new"]

NoPool ==
    /\ objects = <<>>
    /\ hasReset = FALSE
    /\ metrics = [requests |-> 0, hits |-> 0, misses |-> 0, returns |-> 0]
    /\ handles = {}
    /\ nextId = 0

NoBitmap ==
    /\ size = 0
    /\ bits = <<>>
    /\ grants = <<>>
    /\ ThreadsInit

\* Http2Parser::new
ParserInit ==
    /\ settings = Http2Parser_new.settings
    /\ max_frame_size = Http2Parser_new.max_frame_size
    /\ dynamic_table = Http2Parser_new.hpack_decoder.dynamic_table
    /\ dynamic_table_size = Http2Parser_new.hpack_decoder.dynamic_table_size
    /\ max_dynamic_table_size =
           Http2Parser_new.hpack_decoder.max_dynamic_table_size

NoInt ==
    /\ overflow_checks = FALSE
    /\ int_input = <<>>
    /\ int_prefix = 0

NoFlow ==
    /\ connection_window = 0
    /\ initial_stream_window = 0
    /\ stream_windows = <<>>
    /\ flow_log = <<>>

NoStreams ==
    /\ streams = <<>>
    /\ next_stream_id = 0
    /\ max_concurrent_streams = None
    /\ created = <<>>

NoConn ==
    /\ state = "none"
    /\ read_buffer = <<>>
    /\ last_stream_id = 0
    /\ transport = "none"
    /\ written = <<>>
    /\ processed = 0
    /\ keep_alive = FALSE
    /\ idle = 0
    /\ arrived = <<>>
    /\ surfaced = <<>>

NoServer == NoFlow /\ NoStreams /\ NoConn

NoStack ==
    /\ head = 0
    /\ nodes = <<>>
    /\ pending = <<>>
    /\ stack_calls = 0

NoScan == scan_input = <<>>

\* AtomicBitmap::new(size), then set(i) on all but the last `free` bits
InitBitmap ==
    /\ size \in Sizes
    /\ \E free \in 0..MaxFree :
         bits = SetAll(AtomicBitmap_new(size), size, size - free)
    /\ grants = <<>>
    /\ ThreadsInit
    /\ NoPool
    /\ ParserInit
    /\ NoStack
    /\ NoScan
    /\ NoInt
    /\ NoServer

NextBitmap ==
    \E t \in Threads :
        \/ Call(t, "find_and_set")
        \/ FasLoad(t)
        \/ FasCas(t)

\* ObjectPool::new(capacity, factory) or ObjectPool::with_reset(...)
InitPool ==
    /\ size \in Sizes
    /\ bits = ObjectPool_new_available(size)
    /\ grants = <<>>
    /\ ThreadsInit
    /\ objects = ObjectPool_new_objects(size)
    /\ hasReset \in BOOLEAN
    /\ metrics = [requests |-> 0, hits |-> 0, misses |-> 0, returns |-> 0]
    /\ handles = {}
    /\ nextId = size
    /\ ParserInit
    /\ NoStack
    /\ NoScan
    /\ NoInt
    /\ NoServer

NextPool ==
    \/ \E t \in Threads :
        \/ Call(t, "get")
        \/ Call(t, "get_or_create")
        \/ FasLoad(t)
        \/ FasCas(t)
    \/ \E hid \in HandleIds :
        \/ Mutate(hid)
        \/ Drop(hid)

InitHpack ==
    /\ ParserInit
    /\ NoStack
    /\ NoScan
    /\ overflow_checks \in BOOLEAN
    /\ int_input = <<>>
    /\ int_prefix = 0
    /\ NoBitmap
    /\ NoPool
    /\ NoServer

NextHpack ==
    \/ \E block \in Blocks : Decode(block)
    \/ \E new_settings \in SettingLists : UpdateSettings(new_settings)

NextSettings == \E new_settings \in RangeLists : UpdateSettings(new_settings)

\* the first bytes of a prefix integer, and the continuation bytes
IntBytes == {0, 3, 16, 31, 128, 225}

IntInputs == UNION {[1..n -> IntBytes] : n \in 0..MaxIntLen}

InitInt ==
    /\ ParserInit
    /\ NoStack
    /\ NoScan
    /\ overflow_checks \in BOOLEAN
    /\ int_input \in IntInputs
    /\ int_prefix \in {5, 7}
    /\ NoBitmap
    /\ NoPool
    /\ NoServer

NextInt == DecodeInteger

\* FlowController::new(initial_window)
InitFlow ==
    /\ \E w \in InitialWindows :
         /\ connection_window = FlowController_new(w).connection_window
         /\ initial_stream_window = FlowController_new(w).initial_stream_window
         /\ stream_windows = FlowController_new(w).stream_windows
    /\ flow_log = <<>>
    /\ overflow_checks \in BOOLEAN
    /\ int_input = <<>>
    /\ int_prefix = 0
    /\ NoStreams
    /\ NoConn
    /\ ParserInit
    /\ NoStack
    /\ NoScan
    /\ NoBitmap
    /\ NoPool

NextFlow ==
    \/ \E delta \in Deltas : UpdateConnectionWindow(delta)
    \/ \E stream_id \in FlowStreams, delta \in Deltas :
           UpdateStreamWindow(stream_id, delta)
    \/ \E stream_id \in FlowStreams, sz \in DataSizes :
           ConsumeWindow(stream_id, sz)
    \/ \E stream_id \in FlowStreams, sz \in DataSizes :
           CanSend(stream_id, sz)

\* StreamManager::new(max_concurrent)
InitStreams ==
    /\ \E limit \in Limits :
         /\ streams = StreamManager_new(limit).streams
         /\ next_stream_id = StreamManager_new(limit).next_stream_id
         /\ max_concurrent_streams =
                StreamManager_new(limit).max_concurrent_streams
    /\ created = <<>>
    /\ NoFlow
    /\ NoConn
    /\ ParserInit
    /\ NoStack
    /\ NoScan
    /\ NoInt
    /\ NoBitmap
    /\ NoPool

NextStreams ==
    \/ CreateStream
    \/ \E stream_id \in StreamIds : GetStream(stream_id)
    \/ \E stream_id \in StreamIds, st \in StreamStates :
           UpdateStream(stream_id, st)
    \/ CleanupClosedStreams

\* Connection::new
InitConn ==
    /\ state = Connection_new.state
    /\ read_buffer = Connection_new.read_buffer
    /\ last_stream_id = 0
    /\ written = <<>>
    /\ transport = "open"
    /\ processed = 0
    /\ keep_alive = FALSE
    /\ idle = 0
    /\ arrived = <<>>
    /\ surfaced = <<>>
    /\ NoStreams
    /\ NoFlow
    /\ ParserInit
    /\ NoStack
    /\ NoScan
    /\ NoInt
    /\ NoBitmap
    /\ NoPool

NextConn ==
    \/ \E rd \in Reads : Process(rd)
    \/ Tick

\* Connection::new on a stream that will deliver one request
InitH1 ==
    /\ state = Connection_new.state
    /\ read_buffer = Connection_new.read_buffer
    /\ last_stream_id = 0
    /\ written = <<>>
    /\ \E request \in ValidRequests, following \in Following,
          bytewise \in BOOLEAN, avx2 \in BOOLEAN :
           transport = [request |-> request,
                        pending |-> request \o following,
                        chunk |-> IF bytewise THEN 1
                                  ELSE Len(request \o following),
                        avx2 |-> avx2]
    /\ processed = 0
    /\ keep_alive = FALSE
    /\ idle = 0
    /\ arrived = <<>>
    /\ surfaced = <<>>
    /\ NoStreams
    /\ NoFlow
    /\ ParserInit
    /\ NoStack
    /\ NoScan
    /\ NoInt
    /\ NoBitmap
    /\ NoPool

NextH1 == ProcessBytes

\* AtomicStack::new(capacity)
InitStack ==
    /\ \E capacity \in 0..MaxCapacity :
           /\ head = AtomicStack_new(capacity).head
           /\ nodes = AtomicStack_new(capacity).nodes
    /\ pending = <<>>
    /\ stack_calls = 0
    /\ last = [op |-> "new"]
    /\ NoScan
    /\ ParserInit
    /\ NoInt
    /\ NoBitmap
    /\ NoPool
    /\ NoServer

NextStack ==
    \/ \E value \in StackValues : Push(value)
    \/ Pop

\* a slice handed to the scanners
InitSimd ==
    /\ scan_input \in ScanInputs
    /\ last = [op |-> "new"]
    /\ NoStack
    /\ ParserInit
    /\ NoInt
    /\ NoBitmap
    /\ NoPool
    /\ NoServer

NextSimd ==
    \/ IsValidToken
    \/ \E delimiter \in Delimiters : FindIn(delimiter)
    \/ FindCrlf

vars == <<bitmapVars, poolVars, hpackVars, intVars, serverVars, stackVars,
          scan_input, last>>

SpecBitmap == InitBitmap /\ [][NextBitmap]_vars
SpecPool == InitPool /\ [][NextPool]_vars
SpecHpack == InitHpack /\ [][NextHpack]_vars
SpecSettings == InitHpack /\ [][NextSettings]_vars
SpecInt == InitInt /\ [][NextInt]_vars
SpecFlow == InitFlow /\ [][NextFlow]_vars
SpecStreams == InitStreams /\ [][NextStreams]_vars
SpecConn == InitConn /\ [][NextConn]_vars
SpecH1 == InitH1 /\ [][NextH1]_vars
SpecStack == InitStack /\ [][NextStack]_vars
SpecSimd == InitSimd /\ [][NextSimd]_vars

(***************************************************************************)
(* Properties of the pool and the bitmap                                   *)
(***************************************************************************)
SetBits == UNION {{<<w, i>> : i \in bits[w]} : w \in DOMAIN bits}
PoolBound == {h \in handles : h.index # Sentinel}
AllIdle == \A t \in Threads : pc[t] = "idle"

\* C1: at every observable point the number of set bits in the pool's
\* bitmap equals the number of live handles bound to pool slots, also right
\* after construction, when no handle exists.
C1_SetBitsEqualLiveHandles ==
    Cardinality(SetBits) = Cardinality(PoolBound)

\* C2: under concurrent find_and_set callers with no clear in between, no
\* index is returned twice: one caller succeeds for a given index.
C2_DistinctIndices ==
    \A i \in DOMAIN grants : grants[i] <= 1

\* two callers have raced and both came back with an index
C2_Witness ==
    /\ AllIdle
    /\ \A t \in Threads : result[t].some
    /\ \E t1, t2 \in Threads : result[t1].val # result[t2].val

\* C4: on a freshly constructed pool of capacity C with no handle
\* outstanding, the first C get() calls each return a handle (and only the
\* call after them returns None).
C4_FreshPoolServesCapacity ==
    (AllIdle /\ metrics.returns = 0 /\ metrics.requests <= size)
        => metrics.hits = metrics.requests

\* C6: get_or_create() on an exhausted pool returns at once a handle that
\* owns a newly made object, and dropping such a handle leaves the bitmap,
\* every slot's object and the returns counter as they were.
C6_FallbackStep(t) ==
    /\ op[t] = "get_or_create"
    /\ pc[t] # "idle"
    /\ pc'[t] = "idle"
    /\ ~result'[t].some

C6_FreshHandle(h) ==
    /\ h.index = Sentinel
    /\ h.value = factory(h.value.id)
    /\ \A i \in DOMAIN objects : objects[i].id # h.value.id
    /\ \A g \in handles : g.value.id # h.value.id

C6_DropOfFallback ==
    \E h \in handles :
        /\ h.index = Sentinel
        /\ \A g \in handles' : g.hid # h.hid

C6_Fallback ==
    /\ [][\A t \in Threads :
            C6_FallbackStep(t) =>
                \E h \in handles' \ handles : C6_FreshHandle(h)]_vars
    /\ [][C6_DropOfFallback =>
            /\ bits' = bits
            /\ objects' = objects
            /\ metrics'.returns = metrics.returns]_vars

\* a fallback handle has been made on an exhausted pool and dropped again
C6_Witness ==
    /\ last.op = "drop"
    /\ last.index = Sentinel
    /\ metrics.misses > 0
    /\ metrics.hits = 0


(***************************************************************************)
(* HPACK dynamic table: C7, C8, C9                                          *)
(***************************************************************************)
RECURSIVE TableBytes(_)
\* the sum of 32 + |name| + |value| over the entries of a table
TableBytes(table) ==
    IF table = <<>> THEN 0
    ELSE (32 + Len(Head(table).name) + Len(Head(table).value))
         + TableBytes(Tail(table))

\* the records of the last decode's log of one kind
LogOf(kind) ==
    IF last.op = "decode"
    THEN {last.log[i] : i \in {j \in DOMAIN last.log : last.log[j].kind = kind}}
    ELSE {}

\* C7: after any sequence of header-block decodes and SETTINGS updates the
\* sum of 32 + |name| + |value| over the entries of the dynamic table is at
\* most the table's configured maximum size.
C7_TableWithinBudget ==
    ~WLt(max_dynamic_table_size, WOf(TableBytes(dynamic_table)))

\* a SETTINGS update has lowered the budget to 70 bytes and a decode has
\* then filled the table and evicted from it
C7_Witness ==
    /\ max_dynamic_table_size = WOf(70)
    /\ Len(dynamic_table) = 2
    /\ \E r \in LogOf("insert") : Len(r.after) <= Len(r.before)

\* the entries of `before` that an insertion of entry_size bytes under the
\* budget max keeps: the longest prefix (the newest entries) that fits with it
Kept(before, entry_size, max) ==
    LET fits == {k \in 0..Len(before) :
                   ~WLt(max, WOf(TableBytes(SubSeq(before, 1, k)) + entry_size))}
    IN  SubSeq(before, 1, CHOOSE k \in fits : \A j \in fits : j <= k)

\* C8: an insertion evicts strictly oldest-first and stops as soon as the new
\* entry fits, so the table afterwards is the new entry followed by the
\* longest run of newest entries that fits with it; an entry whose own size
\* exceeds the budget leaves the table empty and is not inserted.
C8_EvictOldestFirst ==
    \A r \in LogOf("insert") :
        IF WLt(r.max, WOf(TableBytes(<<r.entry>>)))
        THEN r.after = <<>>
        ELSE r.after = <<r.entry>> \o Kept(r.before, TableBytes(<<r.entry>>), r.max)

\* an insertion into a table of two entries that evicted the older and kept
\* the newer
C8_Witness ==
    \E r \in LogOf("insert") :
        /\ Len(r.before) = 2
        /\ r.after = <<r.entry, r.before[1]>>
        /\ r.before[1] # r.before[2]

\* an insertion of an entry over the budget into a table that held an entry
C8_WitnessOversized ==
    \E r \in LogOf("insert") :
        /\ r.before # <<>>
        /\ WLt(r.max, WOf(TableBytes(<<r.entry>>)))
        /\ dynamic_table = <<>>

\* C9: an indexed header field with index 62 + k resolves to the (k+1)-th
\* most recently inserted entry of the dynamic table; index 0, or an index
\* above 61 plus the number of dynamic entries, is a compression error and
\* the decode yields no header list.
C9_IndexedResolution ==
    \A r \in LogOf("indexed") :
        LET n == Len(r.table)
        IN  /\ (~WLt(r.index, WOf(62)) /\ WLt(r.index, WOf(62 + n)))
                 => r.ret = Ok([name  |-> r.table[r.index[2] - 61].name,
                                value |-> r.table[r.index[2] - 61].value])
            /\ (r.index = WOf(0) \/ ~WLt(r.index, WOf(62 + n)))
                 => /\ r.ret = Err("CompressionError")
                    /\ ~last.ret.ok

\* C9 without the kind of the error: the resolution order, and that index 0
\* and an index out of range fail the decode
C9_ResolutionOrder ==
    \A r \in LogOf("indexed") :
        LET n == Len(r.table)
        IN  /\ (~WLt(r.index, WOf(62)) /\ WLt(r.index, WOf(62 + n)))
                 => r.ret = Ok([name  |-> r.table[r.index[2] - 61].name,
                                value |-> r.table[r.index[2] - 61].value])
            /\ (r.index = WOf(0) \/ ~WLt(r.index, WOf(62 + n)))
                 => /\ ~r.ret.ok
                    /\ ~last.ret.ok

(***************************************************************************)
(* HPACK prefix integers: C10                                               *)
(***************************************************************************)
RECURSIVE RfcContinuation(_, _)
\* RFC 7541 5.1: the sum of the low 7 bits of the continuation bytes
\* input[k + 1], input[k + 2], ... shifted by 0, 7, 14, ..., up to the
\* first byte with the top bit clear; no wrapping
RfcContinuation(input, k) ==
    IF input[k] < 128 THEN WShl(input[k] % 128, 7 * (k - 2))
    ELSE WAdd(WShl(input[k] % 128, 7 * (k - 2)), RfcContinuation(input, k + 1))

\* the positions of the continuation bytes with the top bit clear
Terminators(input) == {k \in 2..Len(input) : input[k] < 128}

\* C10: decode_integer with an N-bit prefix returns the RFC 7541 value: the
\* prefix if it is below 2^N - 1, otherwise 2^N - 1 plus the continuation
\* bytes' sum; it returns an error, never a wrapped value, when there are
\* more than 5 continuation bytes or the input ends before a byte with the
\* top bit clear.
C10_DecodeIntegerRfc ==
    (last.op = "decode_integer" /\ int_input # <<>>) =>
        LET mask == (2 ^ int_prefix) - 1
            prefix == int_input[1] % (2 ^ int_prefix)
        IN  IF prefix < mask
            THEN last.ret.ok /\ last.ret.val = WOf(prefix)
            ELSE IF \E k \in Terminators(int_input) : k - 1 <= 5
            THEN /\ last.ret.ok
                 /\ last.ret.val = WAdd(WOf(mask), RfcContinuation(int_input, 2))
            ELSE last.ret = Err("InvalidHeaderBlock")

\* C40: for every encoded integer decode_integer accepts, a non-minimal
\* encoding padded with zero-valued continuation bytes included,
\* integer_size of the decoded value is the number of bytes decode_integer
\* read, so that decode advances past the whole integer.
C40_IntegerSizeIsBytesRead ==
    (last.op = "decode_integer" /\ last.ret.ok) =>
        integer_size(last.ret.val, int_prefix) = last.ret.read

\* C10's example: 0x1F 0xE1 0x03 with a 5-bit prefix gives 1337.  It does
\* not: 31 + 97 + 3 * 128 = 512, in the code as in RFC 7541.
C10_Example ==
    (last.op = "decode_integer" /\ int_input = <<31, 225, 3>> /\ int_prefix = 5)
        => last.ret.ok /\ last.ret.val = WOf(1337)

C10_ExampleReached ==
    last.op = "decode_integer" /\ int_input = <<31, 225, 3>> /\ int_prefix = 5


(***************************************************************************)
(* Flow control: C11, C12, C13, C14                                         *)
(***************************************************************************)
\* a stream's window: the initial window if the stream has none recorded
WindowOf(fc, stream_id) ==
    IF stream_id \in DOMAIN fc.stream_windows
    THEN fc.stream_windows[stream_id]
    ELSE fc.initial_stream_window

\* the windows of two flow controllers are the same
SameWindows(f, g) ==
    /\ f.connection_window = g.connection_window
    /\ \A s \in FlowStreams : WindowOf(f, s) = WindowOf(g, s)

\* C11: the connection window and every stream window stay within
\* [0, 2^31 - 1], and a call that is rejected is rejected with a
\* flow-control error before any window is changed.
C11_WindowsInRange ==
    /\ connection_window >= 0 /\ connection_window <= I32Max
    /\ \A s \in FlowStreams :
           WindowOf(Flow, s) >= 0 /\ WindowOf(Flow, s) <= I32Max
    /\ \A i \in DOMAIN flow_log :
           ~flow_log[i].ret.ok =>
               /\ flow_log[i].ret = Err("FlowControlError")
               /\ SameWindows(flow_log[i].before, flow_log[i].after)

\* a length (a usize) is at most a window (an i32)
FitsWindow(sz, w) == w >= 0 /\ ~WLt(WOf(w), sz)

\* window a is window b less the length sz, for sz <= 2^31
Decremented(b, sz, a) ==
    IF sz = <<Half \div 2, 0>> THEN b >= 0 /\ a = b + I32Min
    ELSE b >= I32Min + (sz[1] * Half + sz[2])
         /\ a = b - (sz[1] * Half + sz[2])

\* C12: can_send(stream, L) is true exactly when L is at most the
\* connection window and at most the stream's window, for every length L,
\* also above 2^31 - 1; consume_window(stream, L) decrements both windows
\* by L.
C12_CanSendExact ==
    /\ last.op = "can_send" =>
           (last.ret <=> /\ FitsWindow(last.arg, connection_window)
                         /\ FitsWindow(last.arg, WindowOf(Flow, last.stream)))
    /\ \A i \in DOMAIN flow_log :
           flow_log[i].op = "consume_window" =>
               /\ flow_log[i].ret.ok
               /\ Decremented(flow_log[i].before.connection_window,
                              flow_log[i].arg,
                              flow_log[i].after.connection_window)
               /\ Decremented(WindowOf(flow_log[i].before, flow_log[i].stream),
                              flow_log[i].arg,
                              WindowOf(flow_log[i].after, flow_log[i].stream))

\* the window a window update is for, in the flow controller fc
Designated(e, fc) ==
    IF e.op = "update_connection_window" THEN fc.connection_window
    ELSE WindowOf(fc, e.stream)

\* C13: a window update with delta d succeeds and adds d to the designated
\* window whenever the result is at most 2^31 - 1; otherwise it returns a
\* flow-control error and the window keeps its previous value.
C13_WindowUpdate ==
    \A i \in DOMAIN flow_log :
        LET e == flow_log[i]
        IN  e.op \in {"update_connection_window", "update_stream_window"} =>
                IF Designated(e, e.before) <= I32Max - e.arg
                THEN /\ e.ret.ok
                     /\ Designated(e, e.after) = Designated(e, e.before) + e.arg
                ELSE /\ e.ret = Err("FlowControlError")
                     /\ Designated(e, e.after) = Designated(e, e.before)

\* C14: after consume_window(s, L) and then update_stream_window(s, L) on a
\* fresh FlowController with initial window W, can_send(s, W) is true.
C14_CreditRestored ==
    ( /\ Len(flow_log) = 2
      /\ flow_log[1].op = "consume_window"
      /\ flow_log[2].op = "update_stream_window"
      /\ flow_log[2].stream = flow_log[1].stream
      /\ flow_log[1].arg = WOf(flow_log[2].arg)
      /\ flow_log[1].ret.ok /\ flow_log[2].ret.ok
      /\ last.op = "can_send"
      /\ last.stream = flow_log[1].stream
      /\ last.arg = WOf(initial_stream_window) )
        => last.ret

(***************************************************************************)
(* StreamManager properties                                                *)
(***************************************************************************)
\* the number of entries of a stream map that are not Closed
NonClosed(m) == Cardinality({id \in DOMAIN m : m[id] # "Closed"})

\* C15: create_stream fails with TooManyStreams exactly when the number of
\* streams that are not Closed has reached max_concurrent_streams; a Closed
\* stream does not count, swept or not.
C15_LimitCountsNonClosed ==
    last.op = "create_stream" =>
        (last.ret = Err("TooManyStreams")
            <=> /\ max_concurrent_streams.some
                /\ NonClosed(last.before) >= max_concurrent_streams.val)

\* the ids the successful create_stream calls have returned, in call order
IdsOf(log) == [i \in 1..Len(log) |-> log[i].val]
Returned == IdsOf(SelectSeq(created, LAMBDA r : r.ok))

\* C16: the successful create_stream calls return 1, 3, 5, ... in order,
\* odd and strictly increasing; a failed call leaves the counter where it
\* was; no id is returned twice, sweeping Closed entries included.
C16_IdsOddIncreasing ==
    /\ \A i \in 1..Len(Returned) : Returned[i] = 2 * i - 1
    /\ next_stream_id = 2 * Len(Returned) + 1

\* a create_stream that failed, a sweep that removed an id already handed
\* out, and a later create_stream that succeeded
C16_Witness ==
    /\ last.op = "create_stream"
    /\ last.ret.ok
    /\ \E i \in 1..Len(created) : ~created[i].ok
    /\ \E i \in 1..Len(Returned) : Returned[i] \notin DOMAIN streams

\* the transitions of a stream's state RFC 7540 section 5.1 allows between
\* the states of StreamState (a push-promise state has no variant there)
Legal(from, to) ==
    \/ from = to
    \/ from = "Idle" /\ to \in {"Open", "HalfClosedLocal", "HalfClosedRemote", "Closed"}
    \/ from = "Open" /\ to \in {"HalfClosedLocal", "HalfClosedRemote", "Closed"}
    \/ from \in {"HalfClosedLocal", "HalfClosedRemote"} /\ to = "Closed"

\* the state a stream map holds for an id: a stream with no entry is idle
StateOf(m, stream_id) ==
    IF stream_id \in DOMAIN m THEN m[stream_id] ELSE "Idle"

\* C18: an update_stream asking for a transition that is not legal is
\* rejected with an error and the stored state stays what it was.
C18_IllegalTransitionRejected ==
    (/\ last.op = "update_stream"
     /\ ~Legal(StateOf(last.before, last.stream), last.arg))
        => /\ ~last.ret.ok
           /\ StateOf(streams, last.stream) = StateOf(last.before, last.stream)

(***************************************************************************)
(* Connection properties                                                   *)
(***************************************************************************)
\* C17: on an HTTP/2 connection a HEADERS frame whose stream id is smaller
\* than the last stream id seen from the peer is a connection error:
\* process() returns an error and surfaces no Request.
C17_LowerStreamIdRejected ==
    (/\ last.op = "process"
     /\ last.state = "Http2"
     /\ last.frame.type = "Headers"
     /\ last.frame.stream_id < last.last_stream_id)
        => ~last.ret.ok

\* C19: the protocol state only moves forward: it never becomes Detecting
\* again, never changes between Http1 and Http2, and from Closing every
\* process() returns Close and leaves the state Closing.
C19_StateOnlyForward ==
    [][/\ state' = "Detecting" => state = "Detecting"
       /\ state = "Http1" => state' \in {"Http1", "Closing"}
       /\ state = "Http2" => state' \in {"Http2", "Closing"}
       /\ state = "Closing" =>
              /\ state' = "Closing"
              /\ last'.ret = Action("Close")]_vars

\* a process() call on a connection whose protocol was detected earlier
\* failed, and the connection still speaks that protocol
C19_Witness ==
    /\ last.op = "process"
    /\ last.state \in {"Http1", "Http2"}
    /\ ~last.ret.ok
    /\ state = last.state
    /\ processed >= 3

\* the conditions C20 calls fatal: a transport at end of file, an I/O error,
\* an HTTP/1 parse error other than IncompleteRequest
Fatal(l) ==
    /\ l.op = "process"
    /\ ~l.ret.ok
    /\ \/ l.ret.err \in {"ConnectionClosed", "Io"}
       \/ l.state = "Http1" /\ l.ret.err = "ParseError"

\* C20: a process() call that met a fatal condition leaves the connection
\* Closing.
C20_FatalMovesToClosing == Fatal(last) => state = "Closing"

\* C21: while Detecting, once more than 24 bytes are buffered that are
\* neither the HTTP/2 preface nor start with an HTTP/1 method, the
\* connection becomes Closing instead of answering NeedMore.
C21_MismatchCloses ==
    (/\ last.op = "process"
     /\ last.state = "Detecting"
     /\ last.ret.ok
     /\ read_buffer # <<>>
     /\ read_buffer[1].type = "junk")
        => state = "Closing"

\* a process() call that met a connection error of HTTP/2: a header block
\* that does not decode, or a WINDOW_UPDATE on stream 0 whose increment of
\* 2^31 - 1 takes the connection window above 2^31 - 1
ConnectionError(l) ==
    /\ l.op = "process"
    /\ l.state = "Http2"
    /\ \/ l.frame.type = "Headers" /\ ~l.ret.ok
       \/ /\ l.frame.type = "WindowUpdate"
          /\ l.frame.stream_id = 0
          /\ l.frame.payload = <<127, 255, 255, 255>>

\* C22: on a connection error of HTTP/2 a GOAWAY frame is written and the
\* connection becomes Closing.
C22_GoAwayOnConnectionError ==
    ConnectionError(last) =>
        /\ Len(written) > last.written
        /\ written[Len(written)].type = "GoAway"
        /\ state = "Closing"

\* whether a request asks for the connection to be kept: HTTP/1.1 without
\* "Connection: close", HTTP/1.0 with "Connection: keep-alive"
AsksKeepAlive(request) ==
    IF "HTTP/1.0" \in request.flags THEN "keep-alive" \in request.flags
    ELSE "close" \notin request.flags

\* C23: after a request surfaced on an HTTP/1 connection the keep-alive flag
\* is true exactly when the request asks for the connection to be kept.
C23_KeepAliveFlag ==
    (/\ last.op = "process"
     /\ last.state = "Http1"
     /\ last.ret.ok
     /\ last.ret.val.action = "Request")
        => (should_keep_alive(Conn) <=> AsksKeepAlive(last.ret.val.request))

\* C24: a process() call on a connection idle for longer than its timeout
\* returns Close.  (is_timed_out applies the longer keep-alive timeout
\* wherever the claim applies the read timeout, so a connection it reports
\* has exceeded the claim's timeout too.)
C24_TimeoutCloses ==
    (last.op = "process" /\ last.timed_out)
        => (last.ret.ok /\ last.ret.val.action = "Close")

\* C25: a complete request arrives in one read and nothing follows; the
\* first process() detects HTTP/1 and the second returns the request.
C25_SecondProcessReturnsRequest ==
    (/\ last.op = "process"
     /\ processed = 2
     /\ last.state = "Http1"
     /\ Len(arrived) = 1
     /\ last.read \in {"WouldBlock", "eof"})
        => /\ last.ret.ok
           /\ last.ret.val.action = "Request"
           /\ last.ret.val.request = arrived[1]

IsPrefix(s, t) == Len(s) <= Len(t) /\ s = SubSeq(t, 1, Len(s))

\* C26: when the peer has sent complete requests only, the requests are
\* surfaced in the order they arrived, each once, and no process() call
\* fails on bytes that were never sent or parses the wrong bytes.
C26_PipelinedInOrder ==
    (\A i \in 1..Len(arrived) : arrived[i].type = "req")
        => /\ IsPrefix(surfaced, arrived)
           /\ ~(/\ last.op = "process"
                /\ ~last.ret.ok
                /\ last.ret.err = "ParseError")

\* the value the pairs of a SETTINGS payload give HEADER_TABLE_SIZE, if any
TableSizeOf(pairs) ==
    LET at == {i \in 1..Len(pairs) : pairs[i][1] = 1}
    IN  IF at = {} THEN None
        ELSE Some(pairs[CHOOSE i \in at : \A j \in at : j <= i][2])

\* C29: a SETTINGS frame without the ACK flag that is processed has its
\* settings applied and makes exactly one SETTINGS frame with the ACK flag,
\* stream 0 and no payload be written; a SETTINGS frame with the ACK flag
\* makes nothing be written.
C29_SettingsAck ==
    (/\ last.op = "process"
     /\ last.state = "Http2"
     /\ last.frame.type = "Settings")
        => IF "ACK" \in last.frame.flags
           THEN Len(written) = last.written
           ELSE last.ret.ok =>
                    /\ Len(written) = last.written + 1
                    /\ written[Len(written)] = Frame("Settings", {"ACK"}, 0, <<>>)
                    /\ TableSizeOf(parse_settings(last.frame.payload).val).some
                         => settings.header_table_size =
                              TableSizeOf(parse_settings(last.frame.payload).val).val

(***************************************************************************)
(* Http2Parser::update_settings properties                                 *)
(***************************************************************************)
\* a pair whose value its setting does not allow: ENABLE_PUSH other than 0
\* or 1, INITIAL_WINDOW_SIZE above 2^31 - 1, MAX_FRAME_SIZE outside
\* [16384, 16777215]
OutOfRange(pair) ==
    \/ pair[1] = 2 /\ pair[2] \notin {WOf(0), WOf(1)}
    \/ pair[1] = 4 /\ ~WLt(pair[2], <<Half \div 2, 0>>)
    \/ pair[1] = 5 /\ (WLt(pair[2], WOf(16384)) \/ WLt(WOf(16777215), pair[2]))

\* C30: an update_settings call given a value outside its setting's range
\* is rejected, and a call given nothing but unknown ids succeeds and
\* changes nothing.
C30_SettingsRanges ==
    last.op = "update_settings" =>
        /\ (\E i \in 1..Len(last.input) : OutOfRange(last.input[i]))
               => ~last.ret.ok
        /\ (\A i \in 1..Len(last.input) : last.input[i][1] \notin 1..6)
               => (last.ret.ok /\ Parser = last.before)

(***************************************************************************)
(* Properties of HTTP/1 parsing on bytes                                   *)
(***************************************************************************)
\* what parse_request makes of the request alone, all of it in one slice
Whole == Http1Parser_parse_request(transport.request)

Surfacing ==
    last.op = "process_bytes" /\ last.ret.ok
        /\ last.ret.val.action = "Request"

\* C27: the consumed count parse_request returns with a request is the
\* offset of the first byte after that request, so the length of the
\* request when the request starts the input.
C27_ConsumedIsRequestEnd ==
    Surfacing => last.consumed = Len(transport.request)

ProperPrefix(s, t) == Len(s) < Len(t) /\ IsPrefix(s, t)

\* process() has surfaced the request, and it is the request and the
\* consumed count of the one-slice parse
SameAsWhole ==
    Surfacing =>
        /\ IsPrefix(transport.request, last.seen)
        /\ last.ret.val.request = Whole.val.request
        /\ last.consumed = Whole.val.consumed

C39_RejectedSettingsApplyNothing ==
    (last.op = "update_settings" /\ ~last.ret.ok) => Parser = last.before

(***************************************************************************)
(* Properties of HTTP/2 frame handling in Connection::process              *)
(***************************************************************************)
\* process() ran on an HTTP/2 connection and its parser was given input
\* that starts with a unit of this type
OnHttp2(type) ==
    /\ last.op = "process"
    /\ last.state = "Http2"
    /\ last.seen # <<>>
    /\ last.seen[1].type = type

\* C31: a frame of an unknown type is ignored: process() consumes it and
\* returns Continue, no error and no event; the connection stays in HTTP/2
\* and nothing is written.
C31_UnknownFrameIgnored ==
    (OnHttp2("Unknown") /\ last.seen[1] \in Frames)
        => /\ last.ret.ok
           /\ last.ret.val.action = "Continue"
           /\ state = "Http2"
           /\ read_buffer = SubSeq(last.seen, 2, Len(last.seen))
           /\ Len(written) = last.written

\* C32: process() never surfaces a Data event or an HTTP/2 Request whose
\* stream id is 0.
C32_NoEventOnStreamZero ==
    (/\ last.op = "process"
     /\ last.state = "Http2"
     /\ last.ret.ok
     /\ last.ret.val.action \in {"Data", "Request"})
        => last.ret.val.stream_id # 0

\* C33: a HEADERS frame without END_HEADERS does not complete a header
\* block: the call that handles it surfaces no Request.
C33_RequestOnlyAfterEndHeaders ==
    (/\ OnHttp2("Headers")
     /\ last.seen[1] \in Frames
     /\ "END_HEADERS" \notin last.seen[1].flags)
        => ~(last.ret.ok /\ last.ret.val.action = "Request")

IsSuffix(s, t) ==
    Len(s) <= Len(t) /\ s = SubSeq(t, Len(t) - Len(s) + 1, Len(t))

\* C36: after every process() call the read buffer holds only what the
\* transport delivered, and a read that gave WouldBlock or the end of the
\* stream adds nothing to the buffer: what the call leaves is what the
\* buffer held before, less what the parser consumed from its front.
C36_BufferHoldsReceived ==
    last.op = "process" =>
        /\ \A i \in 1..Len(read_buffer) : read_buffer[i].type \notin ZeroTypes
        /\ (last.read \in {"WouldBlock", "eof"})
               => IsSuffix(read_buffer, last.read_buffer)

\* C37: when process() surfaces a Request for a HEADERS frame that opens
\* stream N, the stream manager holds an entry for N.
C37_OpenedStreamIsTracked ==
    (/\ OnHttp2("Headers")
     /\ last.ret.ok
     /\ last.ret.val.action = "Request"
     /\ last.ret.val.stream_id > last.last_stream_id)
        => last.ret.val.stream_id \in DOMAIN streams

(***************************************************************************)
(* The SIMD scanners                                                       *)
(***************************************************************************)
SameOption(a, b) == a.some = b.some /\ (a.some => a.val = b.val)

\* C34: the vectorized find_in, find_crlf and is_valid_token return what
\* the scalar ones return for every input, inputs of 32 bytes and more and
\* inputs holding NUL included; is_valid_token accepts exactly the non-empty
\* strings of token characters.
C34_VectorizedEqualsScalar ==
    /\ last.op \in {"find_in", "find_crlf"} =>
           SameOption(last.avx2, last.scalar)
    /\ last.op = "is_valid_token" =>
           /\ last.avx2 = last.scalar
           /\ last.avx2 <=>
                  /\ scan_input # <<>>
                  /\ \A i \in 1..Len(scan_input) :
                         scan_input[i] \notin Separators \cup {"\r", "\n", " ", NUL}

(***************************************************************************)
(* AtomicStack properties                                                  *)
(***************************************************************************)
\* C35: pop returns the value pushed last among those not popped yet, and
\* None exactly when there is none; push has lost no value.
C35_StackIsLifo ==
    last.op = "pop" =>
        IF last.pending = <<>> THEN ~last.ret.some
        ELSE last.ret.some /\ last.ret.val = last.pending[Len(last.pending)]

(***************************************************************************)
(* AtomicBitmap::find_and_set, beyond the size                             *)
(***************************************************************************)
\* C38: no bit at an index at or beyond size is ever 1, and find_and_set
\* has set no such bit; a call sets a bit below size only when it returns
\* its index, so a call that returns None has then changed no word.
C38_NoBitBeyondSize ==
    /\ oob = {}
    /\ \A w \in DOMAIN bits :
           \A b \in bits[w] : w * WordBits + b < size

=============================================================================
